---- MODULE Spec2Model ----
(***************************************************************************)
(* Model of the security dashboard's serverless handlers and hooks:        *)
(*   - validateUrl, the SSRF predicate duplicated in scan-website,         *)
(*     scan-api and analyze-qr, over the runtime's URL parser;             *)
(*   - the scan handlers (both the Backend/ and the supabase/ variants);   *)
(*   - the block-entity handler;                                           *)
(*   - the useSecurityStats hook: auto-block, blockAttack, blockAllAttacks;*)
(*   - scan-static, multi-agent-analysis, live-threat-stream and           *)
(*     monitor-control;                                                    *)
(*   - the row-level security policies left by the migrations.             *)
(* A URL string is a sequence of one-character strings.                    *)
(***************************************************************************)
EXTENDS Integers, Sequences, FiniteSets, TLC

VARIABLES
    urlCase,          \* SpecUrl: what the input string denotes (how it was written down)
    urlString,        \* SpecUrl: the string handed to validateUrl
    validation,       \* SpecUrl: result of each copy of validateUrl, or None
    reqs,             \* SpecScan: the scan requests (locals and position of each handler run)
    monitoring_status,\* table monitoring_status (single row): "active" | "paused"
    blocked_entities, \* table blocked_entities: set of rows
    scan_results,     \* table scan_results: set of rows
    threats,          \* table threats: set of rows
    audit_logs,       \* table audit_logs: set of rows
    httpLog,          \* outbound HTTP requests sent to scan targets
    llmLog,           \* calls made to the LLM endpoint
    breqs,            \* SpecBlock: the block-entity requests
    user_roles,       \* table user_roles: set of rows
    blocked_attacks,  \* table blocked_attacks: set of rows
    realtime_logs,    \* table realtime_logs: set of rows
    hook,             \* SpecAuto: state of one mounted useSecurityStats hook
    localStorage,     \* SpecAuto: localStorage item 'autoBlockEnabled'
    inflight,         \* SpecAuto: live_attacks INSERT events not yet delivered
    invocations,      \* SpecAuto: block-entity invocations made by the hook
    live_attacks,     \* table live_attacks: set of rows
    delivered,        \* SpecAuto: ids of the INSERT events handed to the channel's callback
    calls,            \* SpecManual: the calls of blockAttack and blockAllAttacks
    auth_users,       \* table auth.users: the ids of the registered users
    statement,        \* SpecRls: the last SQL statement run and what it returned
    incidents         \* table incidents: set of rows

urlVars   == <<urlCase, urlString, validation>>
dbScanVars == <<monitoring_status, blocked_entities, scan_results, threats, audit_logs>>
scanVars  == <<reqs, httpLog, llmLog>>
blockVars == <<breqs, user_roles, blocked_attacks, realtime_logs>>
hookVars  == <<hook, localStorage, inflight, invocations, live_attacks, delivered, calls>>
rlsVars   == <<auth_users, statement, incidents>>
vars == <<urlVars, dbScanVars, scanVars, blockVars, hookVars, rlsVars>>

None == "none"

(***************************************************************************)
(* Characters and strings                                                  *)
(***************************************************************************)
DigitChars == <<"0","1","2","3","4","5","6","7","8","9">>
HexChars   == <<"0","1","2","3","4","5","6","7","8","9","a","b","c","d","e","f">>
UpperChars == <<"A","B","C","D","E","F","G","H","I","J","K","L","M",
                "N","O","P","Q","R","S","T","U","V","W","X","Y","Z">>
LowerChars == <<"a","b","c","d","e","f","g","h","i","j","k","l","m",
                "n","o","p","q","r","s","t","u","v","w","x","y","z">>

Range(s) == {s[i] : i \in 1..Len(s)}

IsDigit(c) == c \in Range(DigitChars)
IsAlpha(c) == c \in Range(UpperChars) \cup Range(LowerChars)

IndexIn(c, s) == CHOOSE i \in 1..Len(s) : s[i] = c

\* String.prototype.toLowerCase on one character (ASCII)
ToLowerChar(c) == IF c \in Range(UpperChars) THEN LowerChars[IndexIn(c, UpperChars)] ELSE c

\* String.prototype.toLowerCase
ToLowerCase(s) == [i \in 1..Len(s) |-> ToLowerChar(s[i])]

\* String.prototype.includes
Includes(s, sub) ==
    \E i \in 1..(Len(s) - Len(sub) + 1) : SubSeq(s, i, i + Len(sub) - 1) = sub

\* String.prototype.startsWith
StartsWith(s, pre) == Len(s) >= Len(pre) /\ SubSeq(s, 1, Len(pre)) = pre

\* position of the first character of s that lies in set cs, 0 when none
FirstIn(s, cs) ==
    IF \E i \in 1..Len(s) : s[i] \in cs
    THEN CHOOSE i \in 1..Len(s) : s[i] \in cs /\ \A j \in 1..(i-1) : s[j] \notin cs
    ELSE 0

\* position of the last character of s that lies in set cs, 0 when none
LastIn(s, cs) ==
    IF \E i \in 1..Len(s) : s[i] \in cs
    THEN CHOOSE i \in 1..Len(s) : s[i] \in cs /\ \A j \in (i+1)..Len(s) : s[j] \notin cs
    ELSE 0

RECURSIVE Split(_, _)
\* String.prototype.split on a one-character separator
Split(s, sep) ==
    LET p == FirstIn(s, {sep})
    IN IF p = 0 THEN <<s>>
       ELSE <<SubSeq(s, 1, p - 1)>> \o Split(SubSeq(s, p + 1, Len(s)), sep)

RECURSIVE ToDec(_)
\* decimal serialization of a natural number
ToDec(n) == IF n < 10 THEN <<DigitChars[n + 1]>>
            ELSE ToDec(n \div 10) \o <<DigitChars[(n % 10) + 1]>>

RECURSIVE ToHex(_)
\* lower-case hexadecimal serialization of a natural number
ToHex(n) == IF n < 16 THEN <<HexChars[n + 1]>>
            ELSE ToHex(n \div 16) \o <<HexChars[(n % 16) + 1]>>

RECURSIVE JoinWith(_, _)
\* Array.prototype.join
JoinWith(parts, sep) ==
    IF Len(parts) = 0 THEN <<>>
    ELSE IF Len(parts) = 1 THEN parts[1]
    ELSE parts[1] \o sep \o JoinWith(Tail(parts), sep)

(***************************************************************************)
(* The runtime's URL parser (new URL(s), no base URL), as far as protocol  *)
(* and hostname are concerned.  Covered input alphabet: ASCII letters,     *)
(* digits and punctuation without "%", tab and newline; IPv6 literals      *)
(* without an embedded dotted-quad tail.                                   *)
(***************************************************************************)
\* value of a hexadecimal digit, -1 for any other character
HexVal(c) ==
    IF ToLowerChar(c) \in Range(HexChars) THEN IndexIn(ToLowerChar(c), HexChars) - 1 ELSE -1

Pow16 == 256 * 256

RECURSIVE Accumulate(_, _, _)
\* digits read in radix R onto acc = <<hi, lo>> (value hi * 2^16 + lo);
\* hi = 2^16 stands for every value of 2^32 and above
Accumulate(digits, R, acc) ==
    IF digits = <<>> THEN acc
    ELSE LET lo == acc[2] * R + HexVal(Head(digits))
             hi == acc[1] * R + (lo \div Pow16)
         IN Accumulate(Tail(digits), R, <<IF hi > Pow16 THEN Pow16 ELSE hi, lo % Pow16>>)

FailNum == [ok |-> FALSE, hi |-> 0, lo |-> 0]

\* the digits of an IPv4 number read in radix R
NumberIn(body, R) ==
    IF \A i \in 1..Len(body) : HexVal(body[i]) \in 0..(R - 1)
    THEN [ok |-> TRUE, hi |-> Accumulate(body, R, <<0, 0>>)[1],
                       lo |-> Accumulate(body, R, <<0, 0>>)[2]]
    ELSE FailNum

\* the URL standard's IPv4 number parser: decimal, 0-prefixed octal, 0x-prefixed hex
ParseIPv4Number(part) ==
    IF part = <<>> THEN FailNum
    ELSE IF Len(part) >= 2 /\ part[1] = "0" /\ part[2] \in {"x", "X"}
    THEN NumberIn(SubSeq(part, 3, Len(part)), 16)
    ELSE IF Len(part) >= 2 /\ part[1] = "0" THEN NumberIn(Tail(part), 8)
    ELSE NumberIn(part, 10)

DropTrailingEmpty(parts) ==
    IF Len(parts) > 1 /\ parts[Len(parts)] = <<>>
    THEN SubSeq(parts, 1, Len(parts) - 1) ELSE parts

\* host split on "." with one trailing empty label dropped
HostParts(host) == DropTrailingEmpty(Split(host, "."))

LastIsNumber(last) ==
    \/ (last # <<>> /\ \A i \in 1..Len(last) : IsDigit(last[i]))
    \/ ParseIPv4Number(last).ok

\* the URL standard's ends-in-a-number checker
EndsInNumber(host) == LastIsNumber(HostParts(host)[Len(HostParts(host))])

FailIPv4 == [ok |-> FALSE, octets |-> <<>>]

\* the address of the parsed numbers nums (the URL standard's IPv4 parser, steps 5-11)
IPv4FromNumbers(nums) ==
    LET n    == Len(nums)
        last == nums[n]
        lastBytes == <<last.hi \div 256, last.hi % 256, last.lo \div 256, last.lo % 256>>
    IN IF n > 4 THEN FailIPv4
       ELSE IF \E i \in 1..n : ~nums[i].ok THEN FailIPv4
       ELSE IF \E i \in 1..(n-1) : nums[i].hi > 0 \/ nums[i].lo > 255 THEN FailIPv4
       ELSE IF \/ last.hi >= Pow16
               \/ (n = 2 /\ last.hi >= 256)
               \/ (n = 3 /\ last.hi > 0)
               \/ (n = 4 /\ (last.hi > 0 \/ last.lo > 255)) THEN FailIPv4
       ELSE [ok |-> TRUE,
             octets |-> [i \in 1..4 |-> IF i < n THEN nums[i].lo ELSE lastBytes[i]]]

NumbersOf(parts) == [i \in 1..Len(parts) |-> ParseIPv4Number(parts[i])]

\* the URL standard's IPv4 parser; octets is the address, most significant first
ParseIPv4(host) == IPv4FromNumbers(NumbersOf(HostParts(host)))

\* the URL standard's IPv4 serializer
SerializeIPv4(octets) == JoinWith([i \in 1..4 |-> ToDec(octets[i])], <<".">>)

\* one 16-bit piece of an IPv6 literal: 1 to 4 hexadecimal digits
IsIPv6Piece(p) == Len(p) \in 1..4 /\ \A i \in 1..Len(p) : HexVal(p[i]) >= 0

IPv6PieceVal(p) == Accumulate(p, 16, <<0, 0>>)[2]

FailIPv6 == [ok |-> FALSE, pieces |-> <<>>]

\* the eight pieces of lp :: rp (lp, rp the pieces written left and right of "::")
IPv6Compressed(lp, rp) ==
    IF /\ Len(lp) + Len(rp) <= 7
       /\ \A i \in 1..Len(lp) : IsIPv6Piece(lp[i])
       /\ \A i \in 1..Len(rp) : IsIPv6Piece(rp[i])
    THEN [ok |-> TRUE,
          pieces |-> [i \in 1..8 |->
                        IF i <= Len(lp) THEN IPv6PieceVal(lp[i])
                        ELSE IF i > 8 - Len(rp) THEN IPv6PieceVal(rp[i - (8 - Len(rp))])
                        ELSE 0]]
    ELSE FailIPv6

IPv6Full(ps) ==
    IF Len(ps) = 8 /\ \A i \in 1..8 : IsIPv6Piece(ps[i])
    THEN [ok |-> TRUE, pieces |-> [i \in 1..8 |-> IPv6PieceVal(ps[i])]]
    ELSE FailIPv6

SplitOrNone(t) == IF t = <<>> THEN <<>> ELSE Split(t, ":")

\* the literal t whose first "::" stands at position at (0: none)
IPv6At(t, at) ==
    IF at = 0 THEN IPv6Full(Split(t, ":"))
    ELSE IPv6Compressed(SplitOrNone(SubSeq(t, 1, at - 1)),
                        SplitOrNone(SubSeq(t, at + 2, Len(t))))

FirstDoubleColon(t) ==
    LET dbl == {i \in 1..(Len(t) - 1) : t[i] = ":" /\ t[i+1] = ":"}
    IN IF dbl = {} THEN 0 ELSE CHOOSE i \in dbl : \A j \in dbl : i <= j

\* the URL standard's IPv6 parser (literals without a dotted-quad tail)
ParseIPv6(t) == IPv6At(t, FirstDoubleColon(t))

\* the URL standard's IPv6 serializer (without the brackets)
SerializeIPv6(p) ==
    LET RunLen(i) == CHOOSE n \in 0..(9 - i) :
                        /\ \A k \in i..(i + n - 1) : p[k] = 0
                        /\ (i + n = 9 \/ p[i + n] # 0)
        best  == CHOOSE n \in 0..8 : (\E i \in 1..8 : RunLen(i) = n)
                                     /\ \A i \in 1..8 : RunLen(i) <= n
        start == CHOOSE i \in 1..8 : RunLen(i) = best /\ \A j \in 1..(i-1) : RunLen(j) < best
        hex(a, b) == JoinWith([i \in 1..(b - a + 1) |-> ToHex(p[a + i - 1])], <<":">>)
    IN IF best < 2 THEN hex(1, 8)
       ELSE hex(1, start - 1) \o <<":", ":">> \o hex(start + best, 8)

ForbiddenDomainChars == {" ", "#", "/", ":", "<", ">", "?", "@", "[", "\\", "]", "^", "|", "%"}

FailHost == [ok |-> FALSE, host |-> <<>>]

HostOfIPv4(a) == IF a.ok THEN [ok |-> TRUE, host |-> SerializeIPv4(a.octets)] ELSE FailHost

HostOfIPv6(a) ==
    IF a.ok THEN [ok |-> TRUE, host |-> <<"[">> \o SerializeIPv6(a.pieces) \o <<"]">>]
    ELSE FailHost

\* host parser, steps after domain-to-ASCII (ASCII input: lower-casing)
HostOfDomain(asciiDomain) ==
    IF \E i \in 1..Len(asciiDomain) : asciiDomain[i] \in ForbiddenDomainChars THEN FailHost
    ELSE IF EndsInNumber(asciiDomain) THEN HostOfIPv4(ParseIPv4(asciiDomain))
    ELSE [ok |-> TRUE, host |-> asciiDomain]

\* the URL standard's host parser for a special scheme; host is the serialized host
ParseHost(input) ==
    IF input = <<>> THEN FailHost
    ELSE IF input[1] = "["
    THEN IF input[Len(input)] # "]" THEN FailHost
         ELSE HostOfIPv6(ParseIPv6(SubSeq(input, 2, Len(input) - 1)))
    ELSE HostOfDomain(ToLowerCase(input))

IsSchemeChar(c) == IsAlpha(c) \/ IsDigit(c) \/ c \in {"+", "-", "."}

\* the strings the parser and validateUrl compare with
Lit == [http  |-> <<"h","t","t","p">>,
        https |-> <<"h","t","t","p","s">>,
        ftp   |-> <<"f","t","p">>,
        ws    |-> <<"w","s">>,
        wss   |-> <<"w","s","s">>,
        file  |-> <<"f","i","l","e">>,
        localhost |-> <<"l","o","c","a","l","h","o","s","t">>,
        ip127 |-> <<"1","2","7",".","0",".","0",".","1">>,
        v6loop |-> <<":",":","1">>,
        ip0   |-> <<"0",".","0",".","0",".","0">>,
        metadata |-> <<"m","e","t","a","d","a","t","a">>,
        instance_data |-> <<"i","n","s","t","a","n","c","e","-","d","a","t","a">>,
        ip169 |-> <<"1","6","9",".","2","5","4",".","1","6","9",".","2","5","4">>,
        metadata_google_internal |->
            <<"m","e","t","a","d","a","t","a",".","g","o","o","g","l","e",
              ".","i","n","t","e","r","n","a","l">>,
        metadata_azure_com |->
            <<"m","e","t","a","d","a","t","a",".","a","z","u","r","e",".","c","o","m">>]

\* special schemes whose URLs carry an authority (file is handled apart)
SpecialSchemes == {Lit.http, Lit.https, Lit.ftp, Lit.ws, Lit.wss}

RECURSIVE TrimLeft(_)
TrimLeft(s) == IF s # <<>> /\ Head(s) = " " THEN TrimLeft(Tail(s)) ELSE s

RECURSIVE TrimRight(_)
TrimRight(s) == IF s # <<>> /\ s[Len(s)] = " " THEN TrimRight(SubSeq(s, 1, Len(s) - 1)) ELSE s

RECURSIVE SkipSlashes(_)
\* special authority slashes / ignore slashes states
SkipSlashes(s) == IF s # <<>> /\ Head(s) \in {"/", "\\"} THEN SkipSlashes(Tail(s)) ELSE s

\* authority state: the text up to the first "/", "\", "?" or "#"
AuthorityOf(x) ==
    IF FirstIn(x, {"/", "\\", "?", "#"}) = 0 THEN x
    ELSE SubSeq(x, 1, FirstIn(x, {"/", "\\", "?", "#"}) - 1)

\* what follows the last "@" (the credentials end there)
HostPortOf(authority) == SubSeq(authority, LastIn(authority, {"@"}) + 1, Len(authority))

\* position of the ":" that starts the port: the first one outside brackets, 0 when none
PortColon(hostport) ==
    LET bracketed == hostport # <<>> /\ hostport[1] = "["
        closeB    == IF bracketed THEN FirstIn(hostport, {"]"}) ELSE 0
        colons    == IF bracketed /\ closeB = 0 THEN {}
                     ELSE {i \in (closeB + 1)..Len(hostport) : hostport[i] = ":"}
    IN IF colons = {} THEN 0 ELSE CHOOSE i \in colons : \A j \in colons : i <= j

SplitAt(hostport, colonAt) ==
    [host |-> IF colonAt = 0 THEN hostport ELSE SubSeq(hostport, 1, colonAt - 1),
     port |-> IF colonAt = 0 THEN <<>> ELSE SubSeq(hostport, colonAt + 1, Len(hostport))]

SplitHostPort(hostport) == SplitAt(hostport, PortColon(hostport))

\* authority, host and port states: the host and port texts
SplitAuthority(afterSlashes) == SplitHostPort(HostPortOf(AuthorityOf(afterSlashes)))

PortOk(port) ==
    /\ \A i \in 1..Len(port) : IsDigit(port[i])
    /\ Accumulate(port, 10, <<0, 0>>)[1] = 0

FailURL == [ok |-> FALSE, protocol |-> <<>>, hostname |-> <<>>]

UrlWithHost(scheme, h) ==
    IF h.ok THEN [ok |-> TRUE, protocol |-> scheme \o <<":">>, hostname |-> h.host]
    ELSE FailURL

\* a special scheme's URL with host and port texts hp
SpecialURL(scheme, hp) ==
    IF hp.host = <<>> \/ ~PortOk(hp.port) THEN FailURL
    ELSE UrlWithHost(scheme, ParseHost(hp.host))

\* a non-special scheme's URL with an authority: the host is kept opaque
OpaqueHostURL(scheme, hp) ==
    IF /\ hp.host # <<>> /\ hp.host[1] # "["
       /\ \E i \in 1..Len(hp.host) : hp.host[i] \in (ForbiddenDomainChars \ {"%"})
    THEN FailURL
    ELSE [ok |-> TRUE, protocol |-> scheme \o <<":">>, hostname |-> hp.host]

\* the URL of scheme and what follows its ":"
SchemeURL(scheme, rest) ==
    IF scheme \in SpecialSchemes THEN SpecialURL(scheme, SplitAuthority(SkipSlashes(rest)))
    ELSE IF scheme = Lit.file
    THEN [ok |-> TRUE, protocol |-> scheme \o <<":">>, hostname |-> <<>>]
    ELSE IF StartsWith(rest, <<"/", "/">>)
    THEN OpaqueHostURL(scheme, SplitAuthority(SubSeq(rest, 3, Len(rest))))
    ELSE [ok |-> TRUE, protocol |-> scheme \o <<":">>, hostname |-> <<>>]

\* scheme start and scheme states on s, whose first ":" stands at colon (0: none)
URLAtColon(s, colon) ==
    IF colon < 2 THEN FailURL
    ELSE IF ~IsAlpha(s[1]) \/ \E i \in 1..(colon - 1) : ~IsSchemeChar(s[i]) THEN FailURL
    ELSE SchemeURL(ToLowerCase(SubSeq(s, 1, colon - 1)), SubSeq(s, colon + 1, Len(s)))

TrimmedURL(s) == URLAtColon(s, FirstIn(s, {":"}))

\* new URL(raw): ok is FALSE where the constructor throws TypeError
ParseURL(raw) == TrimmedURL(TrimRight(TrimLeft(raw)))

(***************************************************************************)
(* validateUrl: one definition per copy in the source                      *)
(***************************************************************************)
\* hostname.match(/^(\d{1,3})\.(\d{1,3})\.(\d{1,3})\.(\d{1,3})$/): the groups, or <<>>
ipv4Regex(hostname) ==
    LET parts == Split(hostname, ".")
    IN IF /\ Len(parts) = 4
          /\ \A i \in 1..4 : Len(parts[i]) \in 1..3 /\ \A j \in 1..Len(parts[i]) : IsDigit(parts[i][j])
       THEN parts ELSE <<>>

\* Number(group) for a group of decimal digits
Number(group) == Accumulate(group, 10, <<0, 0>>)[2]

Invalid(msg) == [valid |-> FALSE, error |-> msg, protocol |-> <<>>, hostname |-> <<>>]

\* a protocol check that lets every scheme through
protocolAllowed_any(protocol) == TRUE

\* scan-website: ['http:', 'https:'].includes(url.protocol)
protocolAllowed(protocol) == protocol \in {Lit.http \o <<":">>, Lit.https \o <<":">>}

\* a loopback check that forgot 0.0.0.0
isLoopbackHost_no0(hostname) ==
    hostname = Lit.localhost \/ hostname = Lit.ip127 \/ hostname = Lit.v6loop

\* scan-website: the "Block localhost and loopback" condition
isLoopbackHost(hostname) ==
    \/ hostname = Lit.localhost \/ hostname = Lit.ip127
    \/ hostname = Lit.v6loop \/ hostname = Lit.ip0

\* a range test whose 172.16.0.0/12 arm stops one short
inPrivateRange_short172(a, b) ==
    \/ a = 10
    \/ (a = 172 /\ b >= 16 /\ b < 31)
    \/ (a = 192 /\ b = 168)
    \/ (a = 169 /\ b = 254)
    \/ a = 127
    \/ a = 0

\* scan-website: the range test on the first two octets
inPrivateRange(a, b) ==
    \/ a = 10
    \/ (a = 172 /\ b >= 16 /\ b <= 31)
    \/ (a = 192 /\ b = 168)
    \/ (a = 169 /\ b = 254)
    \/ a = 127
    \/ a = 0

privateMatch(ipv4Match) ==
    ipv4Match # <<>> /\ inPrivateRange(Number(ipv4Match[1]), Number(ipv4Match[2]))

\* scan-website: the "Block private IPv4 ranges" condition
isPrivateIPv4(hostname) == privateMatch(ipv4Regex(hostname))

blockedDomains == {Lit.metadata_google_internal, Lit.metadata, Lit.instance_data,
                   Lit.ip169, Lit.metadata_azure_com}

\* a metadata check that compares for equality instead of containment
isMetadataHost_exact(hostname) == hostname \in blockedDomains

\* scan-website: blockedDomains.some(d => hostname.includes(d))
isMetadataHost(hostname) == \E d \in blockedDomains : Includes(hostname, d)

\* scan-website: validateUrl after the try block, url the parsed URL
validateParsed(url) ==
    IF ~url.ok THEN Invalid("Invalid URL format")
    ELSE IF ~protocolAllowed(url.protocol)
    THEN Invalid("Only HTTP and HTTPS protocols are allowed")
    ELSE IF isLoopbackHost(ToLowerCase(url.hostname))
    THEN Invalid("Localhost access is not allowed")
    ELSE IF isPrivateIPv4(ToLowerCase(url.hostname))
    THEN Invalid("Private IP ranges are not allowed")
    ELSE IF isMetadataHost(ToLowerCase(url.hostname))
    THEN Invalid("Cloud metadata endpoints are not allowed")
    ELSE [valid |-> TRUE, error |-> None, protocol |-> url.protocol, hostname |-> url.hostname]

\* validateUrl of scan-website
validateUrl(s) == validateParsed(ParseURL(s))

\* scan-api: validateUrl after the try block, url the parsed URL
validateParsed_scanApi(url) ==
    LET hostname  == ToLowerCase(url.hostname)
        ipv4Match == ipv4Regex(hostname)
        a == Number(ipv4Match[1])
        b == Number(ipv4Match[2])
        blocked == {Lit.metadata_google_internal, Lit.metadata, Lit.instance_data,
                    Lit.ip169, Lit.metadata_azure_com}
    IN IF ~url.ok THEN Invalid("Invalid URL format")
       ELSE IF url.protocol \notin {Lit.http \o <<":">>, Lit.https \o <<":">>}
       THEN Invalid("Only HTTP and HTTPS protocols are allowed")
       ELSE IF \/ hostname = Lit.localhost \/ hostname = Lit.ip127
               \/ hostname = Lit.v6loop \/ hostname = Lit.ip0
       THEN Invalid("Localhost access is not allowed")
       ELSE IF /\ ipv4Match # <<>>
               /\ \/ a = 10
                  \/ (a = 172 /\ b >= 16 /\ b <= 31)
                  \/ (a = 192 /\ b = 168)
                  \/ (a = 169 /\ b = 254)
                  \/ a = 127
                  \/ a = 0
       THEN Invalid("Private IP ranges are not allowed")
       ELSE IF \E d \in blocked : Includes(hostname, d)
       THEN Invalid("Cloud metadata endpoints are not allowed")
       ELSE [valid |-> TRUE, error |-> None, protocol |-> url.protocol, hostname |-> url.hostname]

\* validateUrl of scan-api
validateUrl_scanApi(s) == validateParsed_scanApi(ParseURL(s))

\* analyze-qr: validateUrl after the try block, url the parsed URL
validateParsed_analyzeQr(url) ==
    LET hostname  == ToLowerCase(url.hostname)
        ipv4Match == ipv4Regex(hostname)
        a == Number(ipv4Match[1])
        b == Number(ipv4Match[2])
        blocked == {Lit.metadata_google_internal, Lit.metadata, Lit.instance_data,
                    Lit.ip169, Lit.metadata_azure_com}
    IN IF ~url.ok THEN Invalid("Invalid URL format")
       ELSE IF url.protocol \notin {Lit.http \o <<":">>, Lit.https \o <<":">>}
       THEN Invalid("Only HTTP and HTTPS protocols are allowed")
       ELSE IF \/ hostname = Lit.localhost \/ hostname = Lit.ip127
               \/ hostname = Lit.v6loop \/ hostname = Lit.ip0
       THEN Invalid("Localhost access is not allowed")
       ELSE IF /\ ipv4Match # <<>>
               /\ \/ a = 10
                  \/ (a = 172 /\ b >= 16 /\ b <= 31)
                  \/ (a = 192 /\ b = 168)
                  \/ (a = 169 /\ b = 254)
                  \/ a = 127
                  \/ a = 0
       THEN Invalid("Private IP ranges are not allowed")
       ELSE IF \E d \in blocked : Includes(hostname, d)
       THEN Invalid("Cloud metadata endpoints are not allowed")
       ELSE [valid |-> TRUE, error |-> None, protocol |-> url.protocol, hostname |-> url.hostname]

\* validateUrl of analyze-qr
validateUrl_analyzeQr(s) == validateParsed_analyzeQr(ParseURL(s))

(***************************************************************************)
(* SpecUrl: validateUrl applied to a bounded set of input strings          *)
(***************************************************************************)
\* how far around each range boundary the sampled octets reach
OctetSpread == 1

Near(k) == {n \in (k - OctetSpread)..(k + OctetSpread) : n >= 0 /\ n <= 255}

\* first and second octets around the boundaries of the blocked ranges
FirstOctets  == UNION {Near(k) : k \in {0, 10, 127, 169, 172, 192}}
SecondOctets == UNION {Near(k) : k \in {16, 31, 168, 254}}
TailOctets   == {<<0, 1>>, <<169, 254>>}

SampledAddresses ==
    {<<a, b, t[1], t[2]>> : a \in FirstOctets, b \in SecondOctets, t \in TailOctets}
      \cup {<<0, 0, 0, 0>>, <<127, 0, 0, 1>>, <<255, 255, 255, 255>>}

\* ways of writing an IPv4 host that the URL parser accepts
Notations == {"dec", "oct", "hex", "short", "int"}

RECURSIVE ToOct(_)
ToOct(n) == IF n < 8 THEN <<DigitChars[n + 1]>>
            ELSE ToOct(n \div 8) \o <<DigitChars[(n % 8) + 1]>>

RECURSIVE PadHex(_, _)
PadHex(h, w) == IF Len(h) >= w THEN h ELSE PadHex(<<"0">> \o h, w)

\* the host text of address o in notation n
WriteIPv4(o, n) ==
    CASE n = "dec"   -> JoinWith([i \in 1..4 |-> ToDec(o[i])], <<".">>)
      [] n = "oct"   -> JoinWith([i \in 1..4 |-> <<"0">> \o ToOct(o[i])], <<".">>)
      [] n = "hex"   -> JoinWith([i \in 1..4 |-> <<"0", "x">> \o ToHex(o[i])], <<".">>)
      [] n = "short" -> ToDec(o[1]) \o <<".">> \o ToDec(o[2]) \o <<".">>
                          \o ToDec(o[3] * 256 + o[4])
      [] n = "int"   -> <<"0", "X">> \o ToHex(o[1] * 256 + o[2])
                          \o PadHex(ToHex(o[3] * 256 + o[4]), 4)

SchemeText(sch) == IF sch = "http" THEN Lit.http ELSE Lit.https

IPv4Case(sch, o, n) ==
    [family |-> "ipv4", parses |-> TRUE, scheme |-> sch,
     loopback |-> (o \in {<<127, 0, 0, 1>>, <<0, 0, 0, 0>>}),
     metadata |-> (o = <<169, 254, 169, 254>>),
     octets |-> o, notation |-> n,
     text |-> SchemeText(sch) \o <<":", "/", "/">> \o WriteIPv4(o, n) \o <<"/">>]

\* every sampled address in every notation under http, and in decimal under https
IPv4Cases ==
    {IPv4Case("http", o, n) : o \in SampledAddresses, n \in Notations}
      \cup {IPv4Case("https", o, "dec") : o \in SampledAddresses}

\* written-out inputs: what each denotes under the URL standard
TextCases == {
    [family |-> "name", parses |-> TRUE, scheme |-> "http", loopback |-> FALSE, metadata |-> FALSE,
     octets |-> <<>>, notation |-> "text",
     text |-> <<"h","t","t","p",":","/","/","e","x","a","m","p","l","e",".","c","o","m","/">>],
    [family |-> "name", parses |-> TRUE, scheme |-> "https", loopback |-> FALSE, metadata |-> FALSE,
     octets |-> <<>>, notation |-> "text",
     text |-> <<"h","t","t","p","s",":","/","/","e","x","a","m","p","l","e",".","c","o","m","/","p","a","t","h","?","q","=","1">>],
    [family |-> "name", parses |-> TRUE, scheme |-> "http", loopback |-> FALSE, metadata |-> FALSE,
     octets |-> <<>>, notation |-> "text",
     text |-> <<"H","T","T","P",":","/","/","E","X","A","M","P","L","E",".","C","O","M","/">>],
    [family |-> "name", parses |-> TRUE, scheme |-> "http", loopback |-> FALSE, metadata |-> FALSE,
     octets |-> <<>>, notation |-> "text",
     text |-> <<"h","t","t","p",":","/","\\","e","x","a","m","p","l","e",".","c","o","m">>],
    [family |-> "name", parses |-> TRUE, scheme |-> "https", loopback |-> FALSE, metadata |-> FALSE,
     octets |-> <<>>, notation |-> "text",
     text |-> <<" "," ","h","t","t","p","s",":","/","/","d","a","t","a",".","e","x","a","m","p","l","e",".","o","r","g","/"," ">>],
    [family |-> "name", parses |-> TRUE, scheme |-> "http", loopback |-> TRUE, metadata |-> FALSE,
     octets |-> <<>>, notation |-> "text",
     text |-> <<"h","t","t","p",":","/","/","l","o","c","a","l","h","o","s","t","/">>],
    [family |-> "name", parses |-> TRUE, scheme |-> "https", loopback |-> TRUE, metadata |-> FALSE,
     octets |-> <<>>, notation |-> "text",
     text |-> <<"h","t","t","p","s",":","/","/","L","O","C","A","L","H","O","S","T","/">>],
    [family |-> "name", parses |-> TRUE, scheme |-> "http", loopback |-> TRUE, metadata |-> FALSE,
     octets |-> <<>>, notation |-> "text",
     text |-> <<"h","t","t","p",":","/","/","l","o","c","a","l","h","o","s","t",":","8","0","8","0","/","a","d","m","i","n">>],
    [family |-> "name", parses |-> TRUE, scheme |-> "http", loopback |-> TRUE, metadata |-> FALSE,
     octets |-> <<>>, notation |-> "text",
     text |-> <<"h","t","t","p",":","/","/","u","s","e","r",":","p","w","@","l","o","c","a","l","h","o","s","t","/">>],
    [family |-> "name", parses |-> TRUE, scheme |-> "http", loopback |-> TRUE, metadata |-> FALSE,
     octets |-> <<>>, notation |-> "text",
     text |-> <<"h","t","t","p",":","l","o","c","a","l","h","o","s","t">>],
    [family |-> "name", parses |-> TRUE, scheme |-> "http", loopback |-> TRUE, metadata |-> FALSE,
     octets |-> <<>>, notation |-> "text",
     text |-> <<"h","t","t","p",":","/","/","1","2","7",".","0",".","0",".","1",":","3","0","0","0","/">>],
    [family |-> "name", parses |-> TRUE, scheme |-> "https", loopback |-> TRUE, metadata |-> FALSE,
     octets |-> <<>>, notation |-> "text",
     text |-> <<"h","t","t","p","s",":","/","/","0",".","0",".","0",".","0","/">>],
    [family |-> "ipv6", parses |-> TRUE, scheme |-> "http", loopback |-> TRUE, metadata |-> FALSE,
     octets |-> <<>>, notation |-> "text",
     text |-> <<"h","t","t","p",":","/","/","[",":",":","1","]","/">>],
    [family |-> "ipv6", parses |-> TRUE, scheme |-> "http", loopback |-> TRUE, metadata |-> FALSE,
     octets |-> <<>>, notation |-> "text",
     text |-> <<"h","t","t","p",":","/","/","[",":",":","1","]",":","8","0","8","0","/">>],
    [family |-> "ipv6", parses |-> TRUE, scheme |-> "https", loopback |-> TRUE, metadata |-> FALSE,
     octets |-> <<>>, notation |-> "text",
     text |-> <<"h","t","t","p","s",":","/","/","[","0",":","0",":","0",":","0",":","0",":","0",":","0",":","1","]","/">>],
    [family |-> "ipv6", parses |-> TRUE, scheme |-> "http", loopback |-> FALSE, metadata |-> FALSE,
     octets |-> <<>>, notation |-> "text",
     text |-> <<"h","t","t","p",":","/","/","[","2","0","0","1",":","D","B","8",":",":","1","]","/">>],
    [family |-> "ipv6", parses |-> TRUE, scheme |-> "http", loopback |-> FALSE, metadata |-> FALSE,
     octets |-> <<>>, notation |-> "text",
     text |-> <<"h","t","t","p",":","/","/","[",":",":","]","/">>],
    [family |-> "name", parses |-> TRUE, scheme |-> "http", loopback |-> FALSE, metadata |-> TRUE,
     octets |-> <<>>, notation |-> "text",
     text |-> <<"h","t","t","p",":","/","/","m","e","t","a","d","a","t","a",".","g","o","o","g","l","e",".","i","n","t","e","r","n","a","l","/","c","o","m","p","u","t","e","M","e","t","a","d","a","t","a","/","v","1","/">>],
    [family |-> "name", parses |-> TRUE, scheme |-> "http", loopback |-> FALSE, metadata |-> TRUE,
     octets |-> <<>>, notation |-> "text",
     text |-> <<"h","t","t","p",":","/","/","M","E","T","A","D","A","T","A",".","G","O","O","G","L","E",".","I","N","T","E","R","N","A","L","/">>],
    [family |-> "name", parses |-> TRUE, scheme |-> "http", loopback |-> FALSE, metadata |-> TRUE,
     octets |-> <<>>, notation |-> "text",
     text |-> <<"h","t","t","p",":","/","/","m","e","t","a","d","a","t","a","/">>],
    [family |-> "name", parses |-> TRUE, scheme |-> "https", loopback |-> FALSE, metadata |-> TRUE,
     octets |-> <<>>, notation |-> "text",
     text |-> <<"h","t","t","p","s",":","/","/","m","y","-","m","e","t","a","d","a","t","a","-","s","e","r","v","e","r",".","e","x","a","m","p","l","e",".","c","o","m","/">>],
    [family |-> "name", parses |-> TRUE, scheme |-> "http", loopback |-> FALSE, metadata |-> TRUE,
     octets |-> <<>>, notation |-> "text",
     text |-> <<"h","t","t","p",":","/","/","i","n","s","t","a","n","c","e","-","d","a","t","a","/","l","a","t","e","s","t","/">>],
    [family |-> "name", parses |-> TRUE, scheme |-> "http", loopback |-> FALSE, metadata |-> TRUE,
     octets |-> <<>>, notation |-> "text",
     text |-> <<"h","t","t","p",":","/","/","I","n","s","t","a","n","c","e","-","D","a","t","a",".","e","c","2",".","i","n","t","e","r","n","a","l","/">>],
    [family |-> "name", parses |-> TRUE, scheme |-> "https", loopback |-> FALSE, metadata |-> TRUE,
     octets |-> <<>>, notation |-> "text",
     text |-> <<"h","t","t","p","s",":","/","/","m","e","t","a","d","a","t","a",".","a","z","u","r","e",".","c","o","m","/">>],
    [family |-> "name", parses |-> TRUE, scheme |-> "http", loopback |-> FALSE, metadata |-> TRUE,
     octets |-> <<>>, notation |-> "text",
     text |-> <<"h","t","t","p",":","/","/","m","e","t","a","d","a","t","a",".","a","z","u","r","e",".","c","o","m",".","e","v","i","l",".","o","r","g","/">>],
    [family |-> "name", parses |-> TRUE, scheme |-> "http", loopback |-> FALSE, metadata |-> TRUE,
     octets |-> <<>>, notation |-> "text",
     text |-> <<"h","t","t","p",":","/","/","1","6","9",".","2","5","4",".","1","6","9",".","2","5","4","/","l","a","t","e","s","t","/","m","e","t","a","-","d","a","t","a","/">>],
    [family |-> "name", parses |-> TRUE, scheme |-> "http", loopback |-> FALSE, metadata |-> TRUE,
     octets |-> <<>>, notation |-> "text",
     text |-> <<"h","t","t","p",":","/","/","1","6","9",".","2","5","4",".","1","6","9",".","2","5","4",".","n","i","p",".","i","o","/">>],
    [family |-> "scheme", parses |-> TRUE, scheme |-> "ftp", loopback |-> FALSE, metadata |-> FALSE,
     octets |-> <<>>, notation |-> "text",
     text |-> <<"f","t","p",":","/","/","e","x","a","m","p","l","e",".","c","o","m","/">>],
    [family |-> "scheme", parses |-> TRUE, scheme |-> "ftp", loopback |-> FALSE, metadata |-> FALSE,
     octets |-> <<>>, notation |-> "text",
     text |-> <<"F","T","P",":","/","/","1","2","7",".","0",".","0",".","1","/">>],
    [family |-> "scheme", parses |-> TRUE, scheme |-> "file", loopback |-> FALSE, metadata |-> FALSE,
     octets |-> <<>>, notation |-> "text",
     text |-> <<"f","i","l","e",":","/","/","/","e","t","c","/","p","a","s","s","w","d">>],
    [family |-> "scheme", parses |-> TRUE, scheme |-> "javascript", loopback |-> FALSE, metadata |-> FALSE,
     octets |-> <<>>, notation |-> "text",
     text |-> <<"j","a","v","a","s","c","r","i","p","t",":","a","l","e","r","t","(","1",")">>],
    [family |-> "scheme", parses |-> TRUE, scheme |-> "data", loopback |-> FALSE, metadata |-> FALSE,
     octets |-> <<>>, notation |-> "text",
     text |-> <<"d","a","t","a",":","t","e","x","t","/","p","l","a","i","n",",","h","i">>],
    [family |-> "scheme", parses |-> TRUE, scheme |-> "gopher", loopback |-> FALSE, metadata |-> FALSE,
     octets |-> <<>>, notation |-> "text",
     text |-> <<"g","o","p","h","e","r",":","/","/","1","6","9",".","2","5","4",".","1","6","9",".","2","5","4","/">>],
    [family |-> "scheme", parses |-> TRUE, scheme |-> "ws", loopback |-> FALSE, metadata |-> FALSE,
     octets |-> <<>>, notation |-> "text",
     text |-> <<"w","s",":","/","/","l","o","c","a","l","h","o","s","t","/">>],
    [family |-> "scheme", parses |-> TRUE, scheme |-> "localhost", loopback |-> FALSE, metadata |-> FALSE,
     octets |-> <<>>, notation |-> "text",
     text |-> <<"l","o","c","a","l","h","o","s","t",":","3","0","0","0">>],
    [family |-> "garbage", parses |-> FALSE, scheme |-> "", loopback |-> FALSE, metadata |-> FALSE,
     octets |-> <<>>, notation |-> "text",
     text |-> <<>>],
    [family |-> "garbage", parses |-> FALSE, scheme |-> "", loopback |-> FALSE, metadata |-> FALSE,
     octets |-> <<>>, notation |-> "text",
     text |-> <<"n","o","t"," ","a"," ","u","r","l">>],
    [family |-> "garbage", parses |-> FALSE, scheme |-> "", loopback |-> FALSE, metadata |-> FALSE,
     octets |-> <<>>, notation |-> "text",
     text |-> <<"e","x","a","m","p","l","e",".","c","o","m">>],
    [family |-> "garbage", parses |-> FALSE, scheme |-> "", loopback |-> FALSE, metadata |-> FALSE,
     octets |-> <<>>, notation |-> "text",
     text |-> <<"/","/","e","x","a","m","p","l","e",".","c","o","m","/">>],
    [family |-> "garbage", parses |-> FALSE, scheme |-> "", loopback |-> FALSE, metadata |-> FALSE,
     octets |-> <<>>, notation |-> "text",
     text |-> <<"/","p","a","t","h">>],
    [family |-> "garbage", parses |-> FALSE, scheme |-> "", loopback |-> FALSE, metadata |-> FALSE,
     octets |-> <<>>, notation |-> "text",
     text |-> <<":","/","/","e","x","a","m","p","l","e",".","c","o","m">>],
    [family |-> "garbage", parses |-> FALSE, scheme |-> "", loopback |-> FALSE, metadata |-> FALSE,
     octets |-> <<>>, notation |-> "text",
     text |-> <<"1","h","t","t","p",":","/","/","x">>],
    [family |-> "garbage", parses |-> FALSE, scheme |-> "", loopback |-> FALSE, metadata |-> FALSE,
     octets |-> <<>>, notation |-> "text",
     text |-> <<"h","t","t","p",":","/","/">>],
    [family |-> "garbage", parses |-> FALSE, scheme |-> "", loopback |-> FALSE, metadata |-> FALSE,
     octets |-> <<>>, notation |-> "text",
     text |-> <<"h","t","t","p",":","/","/","/">>],
    [family |-> "garbage", parses |-> FALSE, scheme |-> "", loopback |-> FALSE, metadata |-> FALSE,
     octets |-> <<>>, notation |-> "text",
     text |-> <<"h","t","t","p",":","/","/","a"," ","b","/">>],
    [family |-> "garbage", parses |-> FALSE, scheme |-> "", loopback |-> FALSE, metadata |-> FALSE,
     octets |-> <<>>, notation |-> "text",
     text |-> <<"h","t","t","p",":","/","/","e","x","a","<","m","p","l","e",".","c","o","m","/">>],
    [family |-> "garbage", parses |-> FALSE, scheme |-> "", loopback |-> FALSE, metadata |-> FALSE,
     octets |-> <<>>, notation |-> "text",
     text |-> <<"h","t","t","p",":","/","/","1",".","2",".","3",".","2","5","6","/">>],
    [family |-> "garbage", parses |-> FALSE, scheme |-> "", loopback |-> FALSE, metadata |-> FALSE,
     octets |-> <<>>, notation |-> "text",
     text |-> <<"h","t","t","p",":","/","/","1",".","2",".","3",".","4",".","5","/">>],
    [family |-> "garbage", parses |-> FALSE, scheme |-> "", loopback |-> FALSE, metadata |-> FALSE,
     octets |-> <<>>, notation |-> "text",
     text |-> <<"h","t","t","p",":","/","/","0","x","1","0","0",".","1",".","1",".","1","/">>],
    [family |-> "garbage", parses |-> FALSE, scheme |-> "", loopback |-> FALSE, metadata |-> FALSE,
     octets |-> <<>>, notation |-> "text",
     text |-> <<"h","t","t","p",":","/","/","4","2","9","4","9","6","7","2","9","6","/">>],
    [family |-> "garbage", parses |-> FALSE, scheme |-> "", loopback |-> FALSE, metadata |-> FALSE,
     octets |-> <<>>, notation |-> "text",
     text |-> <<"h","t","t","p",":","/","/","1",".","2",".","3",".","0","9","/">>],
    [family |-> "garbage", parses |-> FALSE, scheme |-> "", loopback |-> FALSE, metadata |-> FALSE,
     octets |-> <<>>, notation |-> "text",
     text |-> <<"h","t","t","p","s",":","/","/","[",":",":","1","/">>],
    [family |-> "garbage", parses |-> FALSE, scheme |-> "", loopback |-> FALSE, metadata |-> FALSE,
     octets |-> <<>>, notation |-> "text",
     text |-> <<"h","t","t","p",":","/","/","[",":",":","1",":",":","]","/">>],
    [family |-> "garbage", parses |-> FALSE, scheme |-> "", loopback |-> FALSE, metadata |-> FALSE,
     octets |-> <<>>, notation |-> "text",
     text |-> <<"h","t","t","p",":","/","/","[","1",":","2",":","3",":","4",":","5",":","6",":","7","]","/">>],
    [family |-> "garbage", parses |-> FALSE, scheme |-> "", loopback |-> FALSE, metadata |-> FALSE,
     octets |-> <<>>, notation |-> "text",
     text |-> <<"h","t","t","p",":","/","/","e","x","a","m","p","l","e",".","c","o","m",":","9","9","9","9","9","/">>],
    [family |-> "garbage", parses |-> FALSE, scheme |-> "", loopback |-> FALSE, metadata |-> FALSE,
     octets |-> <<>>, notation |-> "text",
     text |-> <<"h","t","t","p",":","/","/","e","x","a","m","p","l","e",".","c","o","m",":","8","a","/">>]
    }

UrlCases == IPv4Cases \cup TextCases

\* the slot of a copy that has not run yet
NotRun == [valid |-> FALSE, error |-> "not run", protocol |-> <<>>, hostname |-> <<>>]
HasRun(r) == r.error # "not run"

NoValidation == [website |-> NotRun, api |-> NotRun, qr |-> NotRun]

ScanIdle ==
    /\ reqs = <<>> /\ httpLog = {} /\ llmLog = {}
    /\ monitoring_status = "active" /\ blocked_entities = {}
    /\ scan_results = {} /\ threats = {} /\ audit_logs = {}

\* the users and the role in their user_roles row (None: no row)
Roles == [ada |-> "admin", ann |-> "analyst", vic |-> "viewer", nat |-> None]

Users == DOMAIN Roles

\* the rows of user_roles that give the users these roles
RoleRows == {[user_id |-> u, role |-> Roles[u]] : u \in {v \in Users : Roles[v] # None}}

\* .from('user_roles').select('role').eq('user_id', user.id).single(): the role of the one
\* row found; with no row, or more than one, single() returns an error and no data
single(user_id) ==
    LET found == {row \in user_roles : row.user_id = user_id}
    IN  IF Cardinality(found) = 1 THEN (CHOOSE row \in found : TRUE).role ELSE None

\* SELECT EXISTS (SELECT 1 FROM user_roles WHERE user_id = _user_id AND role = 'admin')
is_admin(_user_id) == \E row \in user_roles : row.user_id = _user_id /\ row.role = "admin"

BlockIdle ==
    /\ breqs = <<>> /\ user_roles = RoleRows /\ blocked_attacks = {} /\ realtime_logs = {}

\* no statement has run yet
NoStatement ==
    [n |-> 0, by |-> None, cmd |-> None, table |-> None, rows |-> {}, count |-> 0,
     error |-> None]

RlsIdle ==
    /\ auth_users = Users /\ statement = NoStatement /\ incidents = {}

HookIdle ==
    /\ hook = None /\ localStorage = None /\ inflight = {} /\ invocations = <<>>
    /\ live_attacks = {} /\ delivered = {} /\ calls = <<>>

UrlIdle ==
    /\ urlCase = None /\ urlString = <<>> /\ validation = NoValidation

InitUrl ==
    /\ urlCase \in UrlCases
    /\ urlString = urlCase.text
    /\ validation = NoValidation
    /\ ScanIdle /\ BlockIdle /\ HookIdle /\ RlsIdle

\* scan-website runs its validateUrl on the string
ValidateScanWebsite ==
    /\ ~HasRun(validation.website)
    /\ validation' = [validation EXCEPT !.website = validateUrl(urlString)]
    /\ UNCHANGED <<urlCase, urlString, dbScanVars, scanVars, blockVars, hookVars, rlsVars>>

\* scan-api runs its validateUrl on the string
ValidateScanApi ==
    /\ ~HasRun(validation.api)
    /\ validation' = [validation EXCEPT !.api = validateUrl_scanApi(urlString)]
    /\ UNCHANGED <<urlCase, urlString, dbScanVars, scanVars, blockVars, hookVars, rlsVars>>

\* analyze-qr runs its validateUrl on the string
ValidateAnalyzeQr ==
    /\ ~HasRun(validation.qr)
    /\ validation' = [validation EXCEPT !.qr = validateUrl_analyzeQr(urlString)]
    /\ UNCHANGED <<urlCase, urlString, dbScanVars, scanVars, blockVars, hookVars, rlsVars>>

NextUrl == ValidateScanWebsite \/ ValidateScanApi \/ ValidateAnalyzeQr

SpecUrl == InitUrl /\ [][NextUrl]_vars

(***************************************************************************)
(* Properties of validateUrl (checked under SpecUrl)                       *)
(***************************************************************************)
\* address o lies in the network whose first two octets are net, prefix length bits
InCidr(o, net, bits) ==
    CASE bits = 8  -> o[1] = net[1]
      [] bits = 12 -> o[1] = net[1] /\ (o[2] \div 16) = (net[2] \div 16)
      [] bits = 16 -> o[1] = net[1] /\ o[2] = net[2]

\* 10.0.0.0/8, 172.16.0.0/12, 192.168.0.0/16, 169.254.0.0/16, 127.0.0.0/8, 0.0.0.0/8
BlockedNetworks == {<<<<10, 0>>, 8>>, <<<<172, 16>>, 12>>, <<<<192, 168>>, 16>>,
                    <<<<169, 254>>, 16>>, <<<<127, 0>>, 8>>, <<<<0, 0>>, 8>>}

InBlockedNetwork(o) == \E n \in BlockedNetworks : InCidr(o, n[1], n[2])

\* C1: for an http(s) URL whose host is the IPv4 address a.b.c.d, however it
\* is written, validateUrl answers valid = false exactly when the address
\* lies in 10/8, 172.16/12, 192.168/16, 169.254/16, 127/8 or 0/8.
C1_PrivateRangesExactlyRejected ==
    (urlCase.family = "ipv4" /\ HasRun(validation.website))
        => (validation.website.valid = ~InBlockedNetwork(urlCase.octets))

\* C1 witness: the last address of 172.16.0.0/12, written in hexadecimal, was rejected
C1_Witness ==
    /\ urlCase.family = "ipv4" /\ urlCase.notation = "hex"
    /\ urlCase.octets[1] = 172 /\ urlCase.octets[2] = 31
    /\ HasRun(validation.website) /\ ~validation.website.valid

\* C2: an input that does not parse is rejected with 'Invalid URL format', a
\* parsed URL of another scheme with 'Only HTTP and HTTPS protocols are
\* allowed', and an accepted URL always has scheme http or https.
C2_SchemeAllowList ==
    HasRun(validation.website) =>
        /\ ~urlCase.parses => validation.website = Invalid("Invalid URL format")
        /\ (urlCase.parses /\ urlCase.scheme \notin {"http", "https"})
              => validation.website = Invalid("Only HTTP and HTTPS protocols are allowed")
        /\ validation.website.valid
              => /\ urlCase.scheme \in {"http", "https"}
                 /\ validation.website.protocol \in {Lit.http \o <<":">>, Lit.https \o <<":">>}

\* C2 witness: a URL of another scheme was rejected for its protocol
C2_Witness ==
    /\ urlCase.family = "scheme"
    /\ validation.website.error = "Only HTTP and HTTPS protocols are allowed"

\* C3: every http(s) URL whose host is localhost, 127.0.0.1, 0.0.0.0 or the
\* IPv6 loopback ::1 is rejected.
C3_LoopbackRejected ==
    (urlCase.loopback /\ HasRun(validation.website)) => ~validation.website.valid

\* C4: every http(s) URL whose lower-cased hostname is or contains one of the
\* metadata host strings is rejected.
C4_MetadataHostsRejected ==
    (urlCase.metadata /\ HasRun(validation.website)) => ~validation.website.valid

\* C4 witness: a name that merely contains a metadata string was rejected as such
C4_Witness ==
    /\ urlCase.family = "name" /\ urlCase.metadata
    /\ validation.website.error = "Cloud metadata endpoints are not allowed"
    /\ validation.website.hostname = <<>>
    /\ ToLowerCase(ParseURL(urlString).hostname) \notin blockedDomains

\* C8: on every input the three copies of validateUrl give the same valid
\* flag and the same error message.
C8_CopiesAgree ==
    \A x \in {validation.website, validation.api, validation.qr} :
      \A y \in {validation.website, validation.api, validation.qr} :
        (HasRun(x) /\ HasRun(y)) => (x.valid = y.valid /\ x.error = y.error)

\* C8 witness: all three copies ran on 0.0.0.0 and rejected it as localhost
C8_Witness ==
    /\ HasRun(validation.website) /\ HasRun(validation.api) /\ HasRun(validation.qr)
    /\ urlCase.octets = <<0, 0, 0, 0>>
    /\ validation.qr.error = "Localhost access is not allowed"

(***************************************************************************)
(* The scan handlers: scan-website, scan-api and analyze-qr, in the        *)
(* variant under src/Backend/supabase/functions ("Backend") and the one    *)
(* under src/supabase/functions ("legacy").  A handler run is a record in  *)
(* reqs; pc is the await it stands at.                                     *)
(***************************************************************************)
MaxRequests == 2

MaxRedirects == 1

\* the url / endpoint values of the request bodies; <<>> is an absent or empty one
ScanUrls ==
    { <<>>,
      <<"h","t","t","p",":","/","/","e","x","a","m","p","l","e",".","c","o","m","/">>,
      <<"h","t","t","p","s",":","/","/","b","a","d",".","t","e","s","t","/">>,
      <<"h","t","t","p",":","/","/","1","0",".","0",".","0",".","1","/">>,
      <<"f","t","p",":","/","/","e","x","a","m","p","l","e",".","c","o","m","/">>,
      <<"e","x","a","m","p","l","e",".","c","o","m">> }

\* where a scanned server may redirect to
RedirectTargets ==
    { <<"h","t","t","p",":","/","/","1","6","9",".","2","5","4",".","1","6","9",".","2","5","4","/">>,
      <<"h","t","t","p","s",":","/","/","e","x","a","m","p","l","e",".","o","r","g","/">> }

\* the Location headers a fetch follows, in order: at most MaxRedirects of them
RedirectChains ==
    UNION {[1..n -> RedirectTargets] : n \in 0..MaxRedirects}

\* Authorization headers: none, one that auth.getUser() rejects, the token of user u1
ScanTokens == {"none", "bad", "u1"}

\* what the LLM call yields: the request throws, a response without candidate text, a
\* text without a JSON object, an analysis without or with findings
LlmReplies == {"throws", "no_text", "no_json", "clean", "vulnerable"}

\* analyzeWithGemini: a request that throws and a text without a JSON object end in the
\* catch and give null; a response without candidate text gives text = '{}', which
\* matches the pattern and parses to the empty object; otherwise the object in the text
analyzeWithGemini(reply) ==
    CASE reply \in {"throws", "no_json"} -> "null"
      [] reply = "no_text" -> "empty"
      [] OTHER -> reply

\* analysisResult after if (!analysisResult) { analysisResult = { ...fallback } }
analysisResult(reply) ==
    IF analyzeWithGemini(reply) = "null" THEN "fallback" ELSE analyzeWithGemini(reply)

\* the blocked_entities row present from the start
SeededBlock ==
    [type |-> "domain", value |-> <<"b","a","d",".","t","e","s","t">>, req |-> 0,
     blocked_at |-> 1, blocked_by |-> None]

\* the serve callback's locals at arrival
NewRequest(fn, variant, auth, url) ==
    [fn |-> fn, variant |-> variant, auth |-> auth, url |-> url, pc |-> "getUser",
     user |-> None, href |-> <<>>, domain |-> <<>>, lookedUp |-> FALSE,
     llm |-> None, analysis |-> None, action |-> None, read |-> None,
     realtimeAttacks |-> None, next |-> 0,
     threats_found |-> 0, status |-> 0, error |-> None, blocked |-> FALSE,
     is_malicious |-> FALSE, threat_score |-> 0, page |-> "none"]

\* return new Response(JSON.stringify({ error }), { status })
Respond(r, status, error) == [r EXCEPT !.pc = "done", !.status = status, !.error = error]

\* validation.url.href (the path of every ScanUrls member is "/")
Href(protocol, hostname) == protocol \o <<"/", "/">> \o hostname \o <<"/">>

\* a validation gate that lets every URL through
validationFailed_never(result) == FALSE

\* if (!validation.valid)
validationFailed(result) == ~result.valid

\* Backend handlers, from the Authorization check: if (!authHeader) ... 401
Arrived(fn, auth, url) ==
    IF auth = "none"
    THEN Respond(NewRequest(fn, "Backend", auth, url), 401, "Unauthorized - Authentication required")
    ELSE NewRequest(fn, "Backend", auth, url)

\* Backend handlers, after auth.getUser(): 401, or the body checks and the SSRF gate
\* (result is the handler's validateUrl applied to the body's URL)
Authenticated(r, result, requiredMsg) ==
    IF r.auth = "bad" THEN Respond(r, 401, "Invalid or expired authentication token")
    ELSE IF r.url = <<>> THEN Respond([r EXCEPT !.user = r.auth], 400, requiredMsg)
    ELSE IF validationFailed(result)
    THEN Respond([r EXCEPT !.user = r.auth], 400, result.error)
    ELSE [r EXCEPT !.user = r.auth, !.pc = "monitoring",
                   !.href = Href(result.protocol, result.hostname),
                   !.domain = result.hostname]

\* a status check that lets a scan go on while monitoring is paused
MonitoringRead_ignoresPause(r) == [r EXCEPT !.read = monitoring_status, !.pc = "lookup"]

\* monitoringStatus?.status === 'paused' -> 403
MonitoringRead(r) ==
    IF monitoring_status = "paused"
    THEN Respond([r EXCEPT !.read = monitoring_status], 403,
                 "Monitoring is paused. Resume to perform scans.")
    ELSE [r EXCEPT !.read = monitoring_status, !.pc = "lookup"]

\* a lookup that finds no row
blockedEntity_never(domain) == FALSE

\* .from('blocked_entities').select('*').eq('type', 'domain').eq('value', domain).maybeSingle()
blockedEntity(domain) == \E row \in blocked_entities : row.type = "domain" /\ row.value = domain

\* scan-website and scan-api after the blocked-domain lookup
LookedUp(r, blockedMsg) ==
    IF blockedEntity(r.domain)
    THEN [Respond(r, 403, blockedMsg) EXCEPT !.lookedUp = TRUE, !.blocked = TRUE]
    ELSE [r EXCEPT !.lookedUp = TRUE, !.pc = "fetch"]

\* analyze-qr after the blocked-domain lookup: 200 with blocked: true
LookedUpQr(r) ==
    IF blockedEntity(r.domain)
    THEN [Respond(r, 200, None) EXCEPT !.lookedUp = TRUE, !.blocked = TRUE,
                                       !.is_malicious = TRUE, !.threat_score = 100]
    ELSE [r EXCEPT !.lookedUp = TRUE, !.pc = "llm"]

\* the requests fetch(href), following redirects, sends for run i
Requests(i, href, chain) ==
    {[req |-> i, hop |-> 0, dest |-> href]}
        \cup {[req |-> i, hop |-> k, dest |-> chain[k]] : k \in 1..Len(chain)}

\* analysisResult.total_vulnerabilities of scan-website (fallback: isHttps ? 2 : 5)
WebsiteFindings(reply, url) ==
    CASE analyzeWithGemini(reply) = "null" -> (IF StartsWith(url, Lit.https) THEN 2 ELSE 5)
      [] analyzeWithGemini(reply) \in {"clean", "empty"} -> 0
      [] OTHER -> 1

\* analysisResult.vulnerabilities.length of scan-api (fallback: two entries)
ApiFindings(reply) ==
    CASE analyzeWithGemini(reply) = "null" -> 2
      [] analyzeWithGemini(reply) \in {"clean", "empty"} -> 0
      [] OTHER -> 1

suspiciousTlds == {<<".","x","y","z">>, <<".","t","k">>, <<".","m","l">>,
                   <<".","g","a">>, <<".","c","f">>, <<".","g","q">>}

shorteners == {<<"b","i","t",".","l","y">>, <<"t","i","n","y","u","r","l">>,
               <<"t",".","c","o">>, <<"g","o","o",".","g","l">>,
               <<"o","w",".","l","y">>, <<"i","s",".","g","d">>}

\* analysisResult.is_malicious ? 1 : 0 of analyze-qr (fallback: TLD and shortener heuristics)
QrFindings(reply, url) ==
    CASE analyzeWithGemini(reply) = "null" ->
            (IF \E s \in suspiciousTlds \cup shorteners : Includes(ToLowerCase(url), s)
             THEN 1 ELSE 0)
      [] analyzeWithGemini(reply) \in {"clean", "empty"} -> 0
      [] OTHER -> 1

\* after the LLM call: the analysis result is in hand
Analysed(r, reply, findings) ==
    [r EXCEPT !.llm = reply, !.analysis = analysisResult(reply),
              !.threats_found = findings, !.pc = "scan_results"]

\* after the scan_results insert: on to the threats insert if anything was found
ResultStored(r, next) ==
    IF r.threats_found > 0 THEN [r EXCEPT !.pc = "threats"] ELSE next

\* what no scan handler writes
OutsideScan ==
    <<urlVars, blockVars, hookVars, rlsVars, monitoring_status, blocked_entities>>

\* a request arrives and runs to its first await
Arrive(r) ==
    /\ reqs' = Append(reqs, r)
    /\ UNCHANGED <<OutsideScan, scan_results, threats, audit_logs, httpLog, llmLog>>

\* run i, standing at pc, belongs to the handler fn of variant
At(i, fn, variant, pc) ==
    reqs[i].fn = fn /\ reqs[i].variant = variant /\ reqs[i].pc = pc

\* run i goes on as r; nothing is written
Proceed(i, r) ==
    /\ reqs' = [reqs EXCEPT ![i] = r]
    /\ UNCHANGED <<OutsideScan, scan_results, threats, audit_logs, httpLog, llmLog>>

\* await fetch(dest, ...): with redirect 'follow' (the default) every hop of chain is requested
Fetch(i, sent) ==
    /\ httpLog' = httpLog \cup sent
    /\ reqs' = [reqs EXCEPT ![i].pc = "llm"]
    /\ UNCHANGED <<OutsideScan, scan_results, threats, audit_logs, llmLog>>

\* await analyzeWithGemini(url, ...): the URL goes to the LLM endpoint inside the prompt
CallLlm(i, url, reply, findings) ==
    /\ llmLog' = llmLog \cup {[req |-> i, url |-> url]}
    /\ reqs' = [reqs EXCEPT ![i] = Analysed(reqs[i], reply, findings)]
    /\ UNCHANGED <<OutsideScan, scan_results, threats, audit_logs, httpLog>>

\* a handler that goes on without storing the result
InsertScanResult_skipped(i, scan_type, target, next) ==
    /\ reqs' = [reqs EXCEPT ![i] = ResultStored(reqs[i], next)]
    /\ UNCHANGED <<OutsideScan, scan_results, threats, audit_logs, httpLog, llmLog>>

\* await supabase.from('scan_results').insert({...})
InsertScanResult(i, scan_type, target, next) ==
    /\ scan_results' = scan_results \cup
          {[req |-> i, by |-> reqs[i].fn, scan_type |-> scan_type, target |-> target,
            status |-> "completed", result |-> reqs[i].analysis,
            threats_found |-> reqs[i].threats_found, created_by |-> reqs[i].user]}
    /\ reqs' = [reqs EXCEPT ![i] = ResultStored(reqs[i], next)]
    /\ UNCHANGED <<OutsideScan, threats, audit_logs, httpLog, llmLog>>

\* await supabase.from('threats').insert({...})
InsertThreat(i, source_type, domain, next) ==
    /\ threats' = threats \cup {[req |-> i, source_type |-> source_type, domain |-> domain]}
    /\ reqs' = [reqs EXCEPT ![i] = next]
    /\ UNCHANGED <<OutsideScan, scan_results, audit_logs, httpLog, llmLog>>

\* await supabase.from('audit_logs').insert({...}); then the 200 response
InsertAuditLog(i, action) ==
    /\ audit_logs' = audit_logs \cup
          {[req |-> i, by |-> reqs[i].fn, user_id |-> reqs[i].user, action |-> action]}
    /\ reqs' = [reqs EXCEPT ![i] = Respond(reqs[i], 200, None)]
    /\ UNCHANGED <<OutsideScan, scan_results, threats, httpLog, llmLog>>

ToAudit(r) == [r EXCEPT !.pc = "audit_logs"]

\* src/Backend/supabase/functions/scan-website: the serve handler
ScanWebsite ==
    \/ /\ Len(reqs) < MaxRequests
       /\ \E auth \in ScanTokens, url \in ScanUrls :
             Arrive(Arrived("scan-website", auth, url))
    \/ \E i \in 1..Len(reqs) :
        \/ /\ At(i, "scan-website", "Backend", "getUser")
           /\ Proceed(i, Authenticated(reqs[i], validateUrl(reqs[i].url), "URL is required"))
        \/ /\ At(i, "scan-website", "Backend", "monitoring")
           /\ Proceed(i, MonitoringRead(reqs[i]))
        \/ /\ At(i, "scan-website", "Backend", "lookup")
           /\ Proceed(i, LookedUp(reqs[i], "This domain is blocked"))
        \/ /\ At(i, "scan-website", "Backend", "fetch")
           /\ \E chain \in RedirectChains : Fetch(i, Requests(i, reqs[i].href, chain))
        \/ /\ At(i, "scan-website", "Backend", "llm")
           /\ \E reply \in LlmReplies :
                 CallLlm(i, reqs[i].href, reply, WebsiteFindings(reply, reqs[i].href))
        \/ /\ At(i, "scan-website", "Backend", "scan_results")
           /\ InsertScanResult(i, "website", reqs[i].href, ToAudit(reqs[i]))
        \/ /\ At(i, "scan-website", "Backend", "threats")
           /\ InsertThreat(i, "website", reqs[i].domain, ToAudit(reqs[i]))
        \/ /\ At(i, "scan-website", "Backend", "audit_logs")
           /\ InsertAuditLog(i, "website_scan")

\* src/Backend/supabase/functions/block-entity/index.ts, second half: the scan-api serve handler
ScanApi ==
    \/ /\ Len(reqs) < MaxRequests
       /\ \E auth \in ScanTokens, url \in ScanUrls :
             Arrive(Arrived("scan-api", auth, url))
    \/ \E i \in 1..Len(reqs) :
        \/ /\ At(i, "scan-api", "Backend", "getUser")
           /\ Proceed(i, Authenticated(reqs[i], validateUrl_scanApi(reqs[i].url),
                                       "Endpoint URL is required"))
        \/ /\ At(i, "scan-api", "Backend", "monitoring")
           /\ Proceed(i, MonitoringRead(reqs[i]))
        \/ /\ At(i, "scan-api", "Backend", "lookup")
           /\ Proceed(i, LookedUp(reqs[i], "This API domain is blocked"))
        \/ /\ At(i, "scan-api", "Backend", "fetch")
           /\ \E chain \in RedirectChains : Fetch(i, Requests(i, reqs[i].href, chain))
        \/ /\ At(i, "scan-api", "Backend", "llm")
           /\ \E reply \in LlmReplies : CallLlm(i, reqs[i].href, reply, ApiFindings(reply))
        \/ /\ At(i, "scan-api", "Backend", "scan_results")
           /\ InsertScanResult(i, "api", reqs[i].href, ToAudit(reqs[i]))
        \/ /\ At(i, "scan-api", "Backend", "threats")
           /\ InsertThreat(i, "api", reqs[i].domain, ToAudit(reqs[i]))
        \/ /\ At(i, "scan-api", "Backend", "audit_logs")
           /\ InsertAuditLog(i, "api_scan")

\* src/Backend/supabase/functions/analyze-qr: the serve handler (the target is never fetched)
AnalyzeQr ==
    \/ /\ Len(reqs) < MaxRequests
       /\ \E auth \in ScanTokens, url \in ScanUrls :
             Arrive(Arrived("analyze-qr", auth, url))
    \/ \E i \in 1..Len(reqs) :
        \/ /\ At(i, "analyze-qr", "Backend", "getUser")
           /\ Proceed(i, Authenticated(reqs[i], validateUrl_analyzeQr(reqs[i].url),
                                       "URL is required"))
        \/ /\ At(i, "analyze-qr", "Backend", "monitoring")
           /\ Proceed(i, MonitoringRead(reqs[i]))
        \/ /\ At(i, "analyze-qr", "Backend", "lookup")
           /\ Proceed(i, LookedUpQr(reqs[i]))
        \/ /\ At(i, "analyze-qr", "Backend", "llm")
           /\ \E reply \in LlmReplies :
                 CallLlm(i, reqs[i].href, reply, QrFindings(reply, reqs[i].href))
        \/ /\ At(i, "analyze-qr", "Backend", "scan_results")
           /\ InsertScanResult(i, "qr", reqs[i].href, ToAudit(reqs[i]))
        \/ /\ At(i, "analyze-qr", "Backend", "threats")
           /\ InsertThreat(i, "qr", reqs[i].domain, ToAudit(reqs[i]))
        \/ /\ At(i, "analyze-qr", "Backend", "audit_logs")
           /\ InsertAuditLog(i, "qr_analysis")

\* legacy handlers, from the body check: if (!url) ... 400 (no Authorization check)
LegacyArrived(fn, url, requiredMsg) ==
    IF url = <<>> THEN Respond(NewRequest(fn, "legacy", "none", url), 400, requiredMsg)
    ELSE [NewRequest(fn, "legacy", "none", url) EXCEPT !.pc = "monitoring"]

\* legacy scan-website and scan-api: const domain = new URL(url).hostname, then the lookup;
\* a TypeError of new URL reaches the outer catch: 500
LegacyLookedUp(r, parsed, blockedMsg) ==
    IF ~parsed.ok THEN Respond(r, 500, "Invalid URL")
    ELSE LookedUp([r EXCEPT !.domain = parsed.hostname], blockedMsg)

\* legacy analyze-qr: the same inside try { } catch (e) { /* Invalid URL */ }
LegacyLookedUpQr(r, parsed) ==
    IF ~parsed.ok THEN [r EXCEPT !.pc = "llm"]
    ELSE LookedUpQr([r EXCEPT !.domain = parsed.hostname])

\* legacy fetch(url, ...) of the raw string: fetch throws on a scheme other than http(s),
\* inside the handler's try, before anything is sent
LegacyRequests(i, parsed, chain) ==
    IF parsed.protocol \in {Lit.http \o <<":">>, Lit.https \o <<":">>}
    THEN Requests(i, Href(parsed.protocol, parsed.hostname), chain)
    ELSE {}

Completed(r) == Respond(r, 200, None)

\* src/supabase/functions/scan-website: the serve handler
LegacyScanWebsite ==
    \/ /\ Len(reqs) < MaxRequests
       /\ \E url \in ScanUrls :
             Arrive(LegacyArrived("scan-website", url, "URL is required"))
    \/ \E i \in 1..Len(reqs) :
        \/ /\ At(i, "scan-website", "legacy", "monitoring")
           /\ Proceed(i, MonitoringRead(reqs[i]))
        \/ /\ At(i, "scan-website", "legacy", "lookup")
           /\ Proceed(i, LegacyLookedUp(reqs[i], ParseURL(reqs[i].url), "This domain is blocked"))
        \/ /\ At(i, "scan-website", "legacy", "fetch")
           /\ \E chain \in RedirectChains :
                 Fetch(i, LegacyRequests(i, ParseURL(reqs[i].url), chain))
        \/ /\ At(i, "scan-website", "legacy", "llm")
           /\ \E reply \in LlmReplies :
                 CallLlm(i, reqs[i].url, reply, WebsiteFindings(reply, reqs[i].url))
        \/ /\ At(i, "scan-website", "legacy", "scan_results")
           /\ InsertScanResult(i, "website", reqs[i].url, Completed(reqs[i]))
        \/ /\ At(i, "scan-website", "legacy", "threats")
           /\ InsertThreat(i, "website", reqs[i].domain, Completed(reqs[i]))

\* src/supabase/functions/scan-api: the serve handler
LegacyScanApi ==
    \/ /\ Len(reqs) < MaxRequests
       /\ \E url \in ScanUrls :
             Arrive(LegacyArrived("scan-api", url, "Endpoint URL is required"))
    \/ \E i \in 1..Len(reqs) :
        \/ /\ At(i, "scan-api", "legacy", "monitoring")
           /\ Proceed(i, MonitoringRead(reqs[i]))
        \/ /\ At(i, "scan-api", "legacy", "lookup")
           /\ Proceed(i, LegacyLookedUp(reqs[i], ParseURL(reqs[i].url),
                                        "This API domain is blocked"))
        \/ /\ At(i, "scan-api", "legacy", "fetch")
           /\ \E chain \in RedirectChains :
                 Fetch(i, LegacyRequests(i, ParseURL(reqs[i].url), chain))
        \/ /\ At(i, "scan-api", "legacy", "llm")
           /\ \E reply \in LlmReplies : CallLlm(i, reqs[i].url, reply, ApiFindings(reply))
        \/ /\ At(i, "scan-api", "legacy", "scan_results")
           /\ InsertScanResult(i, "api", reqs[i].url, Completed(reqs[i]))
        \/ /\ At(i, "scan-api", "legacy", "threats")
           /\ InsertThreat(i, "api", reqs[i].domain, Completed(reqs[i]))

\* src/supabase/functions/analyze-qr: the serve handler
LegacyAnalyzeQr ==
    \/ /\ Len(reqs) < MaxRequests
       /\ \E url \in ScanUrls :
             Arrive(LegacyArrived("analyze-qr", url, "URL is required"))
    \/ \E i \in 1..Len(reqs) :
        \/ /\ At(i, "analyze-qr", "legacy", "monitoring")
           /\ Proceed(i, MonitoringRead(reqs[i]))
        \/ /\ At(i, "analyze-qr", "legacy", "lookup")
           /\ Proceed(i, LegacyLookedUpQr(reqs[i], ParseURL(reqs[i].url)))
        \/ /\ At(i, "analyze-qr", "legacy", "llm")
           /\ \E reply \in LlmReplies :
                 CallLlm(i, reqs[i].url, reply, QrFindings(reply, reqs[i].url))
        \/ /\ At(i, "analyze-qr", "legacy", "scan_results")
           /\ InsertScanResult(i, "qr", reqs[i].url, Completed(reqs[i]))
        \/ /\ At(i, "analyze-qr", "legacy", "threats")
           /\ InsertThreat(i, "qr",
                           IF reqs[i].domain = <<>> THEN reqs[i].url ELSE reqs[i].domain,
                           Completed(reqs[i]))

\* the tables as the handlers find them: one domain blocked, monitoring running or paused
InitScan ==
    /\ reqs = <<>> /\ httpLog = {} /\ llmLog = {}
    /\ monitoring_status \in {"active", "paused"}
    /\ blocked_entities = {SeededBlock}
    /\ scan_results = {} /\ threats = {} /\ audit_logs = {}
    /\ UrlIdle /\ BlockIdle /\ HookIdle /\ RlsIdle

NextScan ==
    \/ ScanWebsite \/ ScanApi \/ AnalyzeQr
    \/ LegacyScanWebsite \/ LegacyScanApi \/ LegacyAnalyzeQr

SpecScan == InitScan /\ [][NextScan]_vars

(***************************************************************************)
(* Properties of the scan handlers (checked under SpecScan)                *)
(***************************************************************************)
\* the verdict of the validateUrl copy in the Backend handler fn on every request URL
\* and on every destination a fetch can reach
Destinations ==
    ScanUrls \cup RedirectTargets
        \cup {Href(ParseURL(u).protocol, ParseURL(u).hostname) : u \in ScanUrls}

VerdictOf ==
    [fn \in {"scan-website", "scan-api", "analyze-qr"} |->
        [u \in Destinations |->
            CASE fn = "scan-website" -> validateUrl(u)
              [] fn = "scan-api"     -> validateUrl_scanApi(u)
              [] OTHER               -> validateUrl_analyzeQr(u)]]

\* run i sent nothing to the target nor to the LLM and wrote no row
Untouched(i) ==
    /\ \A e \in httpLog : e.req # i
    /\ \A e \in llmLog : e.req # i
    /\ \A row \in scan_results \cup threats : row.req # i
    /\ \A row \in audit_logs : row.req # i

\* C5: in the Backend handlers a run whose URL its validateUrl rejects never fetches,
\* calls the LLM or writes a row, and once the handler has validated that URL (caller
\* authenticated, URL present) the answer is 400 with the validation error
C5_InvalidUrlIs400AndUnused ==
    \A i \in 1..Len(reqs) :
        (/\ reqs[i].variant = "Backend"
         /\ reqs[i].url # <<>>
         /\ ~VerdictOf[reqs[i].fn][reqs[i].url].valid)
        => /\ Untouched(i)
           /\ ~reqs[i].lookedUp
           /\ reqs[i].pc \in {"getUser", "done"}
           /\ (reqs[i].pc = "done" /\ reqs[i].auth = "u1")
                 => /\ reqs[i].status = 400
                    /\ reqs[i].error = VerdictOf[reqs[i].fn][reqs[i].url].error

\* an authenticated Backend run of each handler was answered 400 for a private address
C5_Witness ==
    \E i \in 1..Len(reqs) :
        /\ reqs[i].variant = "Backend" /\ reqs[i].auth = "u1" /\ reqs[i].pc = "done"
        /\ reqs[i].status = 400
        /\ reqs[i].error = "Private IP ranges are not allowed"
        /\ \E j \in 1..Len(reqs) : j # i /\ reqs[j].pc = "done" /\ reqs[j].status = 200
                                    /\ reqs[j].variant = "Backend"

\* C6: every request scan-website and scan-api (Backend) send for a scan target,
\* redirect hops included, goes to a destination their validateUrl accepts
C6_EveryHopValidated ==
    \A e \in httpLog :
        reqs[e.req].variant = "Backend" => VerdictOf[reqs[e.req].fn][e.dest].valid

\* C7: in every variant of the three handlers, a URL that is looked up, fetched or
\* sent to the LLM is one the SSRF validation accepts
C7_EveryVariantValidates ==
    \A i \in 1..Len(reqs) :
        (reqs[i].lookedUp \/ (\E e \in httpLog : e.req = i) \/ (\E e \in llmLog : e.req = i))
            => VerdictOf[reqs[i].fn][reqs[i].url].valid

\* the LLM call of run i failed: it threw, or brought no candidate text, or no JSON object
LlmFailed(i) == reqs[i].llm \in {"throws", "no_text", "no_json"}

\* C14: a run whose LLM call failed carries the hardcoded fallback object as its analysis
\* result, never ends with an error response, and once it has answered it has answered
\* 200 and scan_results holds its 'completed' row with the fallback object as result
C14_LlmFailureUsesFallback ==
    \A i \in 1..Len(reqs) :
        LlmFailed(i) =>
            /\ reqs[i].analysis = "fallback"
            /\ reqs[i].pc = "done" =>
                  /\ reqs[i].status = 200
                  /\ \E row \in scan_results :
                        row.req = i /\ row.status = "completed" /\ row.result = "fallback"

\* C25: a run whose lookup was made for a hostname that blocked_entities holds with type
\* 'domain' has ended: scan-website and scan-api with 403 and blocked true, analyze-qr
\* with 200, is_malicious true, threat_score 100 and blocked true; it has sent no request
\* to the target, not called the LLM and written no scan_results, threats or audit_logs
\* row
C25_BlockedDomainStopsScan ==
    \A i \in 1..Len(reqs) :
        (/\ reqs[i].lookedUp
         /\ \E row \in blocked_entities :
               row.type = "domain" /\ row.value = reqs[i].domain) =>
            /\ reqs[i].pc = "done" /\ reqs[i].blocked
            /\ reqs[i].fn \in {"scan-website", "scan-api"} => reqs[i].status = 403
            /\ reqs[i].fn = "analyze-qr" =>
                  /\ reqs[i].status = 200
                  /\ reqs[i].is_malicious /\ reqs[i].threat_score = 100
            /\ Untouched(i)

\* a scan-website run and an analyze-qr run have both met the blocked domain
C25_Witness ==
    \E i, j \in 1..Len(reqs) :
        /\ reqs[i].fn = "scan-website" /\ reqs[i].variant = "Backend"
        /\ reqs[i].blocked /\ reqs[i].status = 403
        /\ reqs[j].fn = "analyze-qr" /\ reqs[j].variant = "Backend"
        /\ reqs[j].blocked /\ reqs[j].status = 200

\* run i of scan-website, scan-api or analyze-qr has passed the authentication, the URL
\* validation, the pause check and the blocked-domain lookup
PassedChecks(i) ==
    /\ reqs[i].fn \in {"scan-website", "scan-api", "analyze-qr"}
    /\ reqs[i].variant = "Backend"
    /\ reqs[i].user # None /\ reqs[i].read = "active"
    /\ reqs[i].lookedUp /\ ~reqs[i].blocked

MaxBlockRequests == 2

\* Authorization headers: none, one that auth.getUser() rejects, or a user's token
BlockTokens == {None, "bad"} \cup Users

\* the body's type and value fields (None, <<>>: absent)
BodyTypes == {None, "ip", "domain", "api_key", "host"}

BodyValues == {<<>>, <<"2","0","3",".","0",".","1","1","3",".","7">>}

\* the body's attack_id: absent, or the id of an attack of the stream's answer
BodyAttackIds == {None, "5b1e"}

\* the serve callback's locals at arrival; if (!authHeader) ... 401
NewBlockRequest(auth, type, value, auto_blocked, attack_id) ==
    [auth |-> auth, type |-> type, value |-> value, auto_blocked |-> auto_blocked,
     attack_id |-> attack_id,
     pc |-> IF auth = None THEN "done" ELSE "getUser",
     role |-> None, status |-> IF auth = None THEN 401 ELSE 0, success |-> FALSE,
     found |-> FALSE, blocked_at |-> 0,
     error |-> IF auth = None THEN "Unauthorized - Authentication required" ELSE None]

\* a role gate that lets every authenticated user through
notAdmin_never(userRole) == FALSE

\* roleError || !userRole || userRole.role !== 'admin'  (.single() errs when there is no row)
notAdmin(userRole) == userRole = None \/ userRole # "admin"

\* after auth.getUser()
BlockAuthenticated(r) ==
    IF r.auth = "bad" THEN Respond(r, 401, "Invalid or expired authentication token")
    ELSE [r EXCEPT !.pc = "role"]

\* after the user_roles read: 403, or the body checks
RoleRead(r, userRole) ==
    IF notAdmin(userRole)
    THEN Respond([r EXCEPT !.role = userRole], 403,
                 "Forbidden - Admin role required to block entities")
    ELSE IF r.type = None \/ r.value = <<>>
    THEN Respond([r EXCEPT !.role = userRole], 400, "Type and value are required")
    ELSE IF r.type \notin {"ip", "domain", "api_key"}
    THEN Respond([r EXCEPT !.role = userRole], 400, "Invalid type. Use: ip, domain, or api_key")
    ELSE [r EXCEPT !.role = userRole, !.pc = "existing"]

\* .from('blocked_entities').select('*').eq('type', type).eq('value', value).maybeSingle()
existing(type, value) == \E row \in blocked_entities : row.type = type /\ row.value = value

\* after the "already blocked" lookup: 200 with success: false, or on to the insert
\* existing.blocked_at
blocked_at(type, value) ==
    (CHOOSE row \in blocked_entities : row.type = type /\ row.value = value).blocked_at

\* if (existing) the answer is { success: false, message, blocked_at: existing.blocked_at }
\* (found: the local existing is set; blocked_at 0: the answer has none)
ExistingRead(r) ==
    IF existing(r.type, r.value)
    THEN [Respond(r, 200, None) EXCEPT !.found = TRUE,
                                       !.blocked_at = blocked_at(r.type, r.value)]
    ELSE [r EXCEPT !.pc = "insert"]

\* what block-entity does not write
OutsideBlock ==
    <<urlVars, scanVars, hookVars, rlsVars, user_roles, monitoring_status, scan_results,
      threats>>

\* run i goes on as r; nothing is written
BlockProceed(i, r) ==
    /\ breqs' = [breqs EXCEPT ![i] = r]
    /\ UNCHANGED <<OutsideBlock, blocked_entities, blocked_attacks, audit_logs, realtime_logs>>

\* a table that takes a second row for a pair
uniqueViolation_never(type, value) == FALSE

\* UNIQUE(type, value): a row with the pair is in the table
uniqueViolation(type, value) == existing(type, value)

\* .from('blocked_entities').insert({...}).select().single(); UNIQUE(type, value) makes
\* the insert fail when the pair is there by now, and the handler throws: 500
InsertBlockedEntity(i) ==
    IF uniqueViolation(breqs[i].type, breqs[i].value)
    THEN BlockProceed(i, Respond(breqs[i], 500, "duplicate key value violates unique constraint"))
    ELSE /\ blocked_entities' = blocked_entities \cup
                {[type |-> breqs[i].type, value |-> breqs[i].value, req |-> i,
                  blocked_at |-> Cardinality(blocked_entities) + 1,
                  blocked_by |-> breqs[i].auth]}
         /\ breqs' = [breqs EXCEPT ![i].pc =
                         IF breqs[i].type = "ip" THEN "blocked_attacks" ELSE "audit_logs"]
         /\ UNCHANGED <<OutsideBlock, blocked_attacks, audit_logs, realtime_logs>>

\* attack_id UUID REFERENCES live_attacks(id): the id names no row
foreignKeyViolation(attack_id) ==
    attack_id # None /\ \A attack \in live_attacks : attack.id # attack_id

\* if (type === 'ip') await supabase.from('blocked_attacks').insert({...}): the result
\* of the insert is not read, the run goes on after a failed insert
InsertBlockedAttack(i) ==
    /\ blocked_attacks' =
          IF foreignKeyViolation(breqs[i].attack_id) THEN blocked_attacks
          ELSE blocked_attacks \cup
                  {[req |-> i, attack_id |-> breqs[i].attack_id,
                    source_ip |-> breqs[i].value, auto_blocked |-> breqs[i].auto_blocked,
                    blocked_by |-> breqs[i].auth]}
    /\ breqs' = [breqs EXCEPT ![i].pc = "audit_logs"]
    /\ UNCHANGED <<OutsideBlock, blocked_entities, audit_logs, realtime_logs>>

\* await supabase.from('audit_logs').insert({ user_id, action: 'entity_blocked', ... })
InsertBlockAudit(i) ==
    /\ audit_logs' = audit_logs \cup
          {[req |-> i, by |-> "block-entity", user_id |-> breqs[i].auth,
            action |-> "entity_blocked"]}
    /\ breqs' = [breqs EXCEPT ![i].pc = "realtime_logs"]
    /\ UNCHANGED <<OutsideBlock, blocked_entities, blocked_attacks, realtime_logs>>

\* await supabase.from('realtime_logs').insert({...}); then 200 with success: true
InsertRealtimeLog(i) ==
    /\ realtime_logs' = realtime_logs \cup
          {[req |-> i, source |-> "block-entity", blocked_by |-> breqs[i].auth]}
    /\ breqs' = [breqs EXCEPT ![i] = [Respond(breqs[i], 200, None) EXCEPT !.success = TRUE]]
    /\ UNCHANGED <<OutsideBlock, blocked_entities, blocked_attacks, audit_logs>>

\* the block-entity serve handler
BlockEntity ==
    \/ /\ Len(breqs) < MaxBlockRequests
       /\ \E auth \in BlockTokens, type \in BodyTypes, value \in BodyValues,
             auto_blocked \in BOOLEAN, attack_id \in BodyAttackIds :
             /\ breqs' = Append(breqs, NewBlockRequest(auth, type, value, auto_blocked,
                                                       attack_id))
             /\ UNCHANGED <<OutsideBlock, blocked_entities, blocked_attacks, audit_logs,
                            realtime_logs>>
    \/ \E i \in 1..Len(breqs) :
        \/ /\ breqs[i].pc = "getUser"
           /\ BlockProceed(i, BlockAuthenticated(breqs[i]))
        \/ /\ breqs[i].pc = "role"
           /\ BlockProceed(i, RoleRead(breqs[i], single(breqs[i].auth)))
        \/ /\ breqs[i].pc = "existing"
           /\ BlockProceed(i, ExistingRead(breqs[i]))
        \/ /\ breqs[i].pc = "insert"
           /\ InsertBlockedEntity(i)
        \/ /\ breqs[i].pc = "blocked_attacks"
           /\ InsertBlockedAttack(i)
        \/ /\ breqs[i].pc = "audit_logs"
           /\ InsertBlockAudit(i)
        \/ /\ breqs[i].pc = "realtime_logs"
           /\ InsertRealtimeLog(i)

InitBlock ==
    /\ breqs = <<>> /\ user_roles = RoleRows
    /\ blocked_entities = {} /\ blocked_attacks = {} /\ audit_logs = {} /\ realtime_logs = {}
    /\ reqs = <<>> /\ httpLog = {} /\ llmLog = {}
    /\ monitoring_status = "active" /\ scan_results = {} /\ threats = {}
    /\ UrlIdle /\ HookIdle /\ RlsIdle

NextBlock == BlockEntity

SpecBlock == InitBlock /\ [][NextBlock]_vars

(***************************************************************************)
(* Properties of block-entity (checked under SpecBlock)                    *)
(***************************************************************************)
\* run i carries the token of a user whose user_roles row says admin
ByAdmin(i) == breqs[i].auth \in Users /\ is_admin(breqs[i].auth)

\* C9: every row in blocked_entities, blocked_attacks, audit_logs and realtime_logs was
\* written by a run made with an admin's token; a run without a header or with a rejected
\* token ends 401, a run of a user without the admin role ends 403
C9_OnlyAdminsBlock ==
    /\ \A row \in blocked_entities : ByAdmin(row.req)
    /\ \A row \in blocked_attacks : ByAdmin(row.req)
    /\ \A row \in audit_logs : ByAdmin(row.req)
    /\ \A row \in realtime_logs : ByAdmin(row.req)
    /\ \A i \in 1..Len(breqs) :
          breqs[i].pc = "done" =>
              /\ breqs[i].auth \in {None, "bad"} => breqs[i].status = 401
              /\ (breqs[i].auth \in Users /\ ~ByAdmin(i)) => breqs[i].status = 403

\* an admin's ip block went through to all four tables while a viewer's run ended 403
C9_Witness ==
    \E i, j \in 1..Len(breqs) :
        /\ ByAdmin(i) /\ breqs[i].pc = "done" /\ breqs[i].success
        /\ \E row \in blocked_entities : row.req = i
        /\ \E row \in blocked_attacks : row.req = i
        /\ \E row \in audit_logs : row.req = i
        /\ \E row \in realtime_logs : row.req = i
        /\ breqs[j].auth = "vic" /\ breqs[j].pc = "done" /\ breqs[j].status = 403

\* run i wrote a row into one of the tables of block-entity
WroteRow(i) ==
    \/ \E row \in blocked_entities : row.req = i
    \/ \E row \in blocked_attacks : row.req = i
    \/ \E row \in audit_logs : row.req = i
    \/ \E row \in realtime_logs : row.req = i

\* C19: blocked_entities never holds two rows with the same (type, value); a run whose
\* lookup finds the pair answers success false with the blocked_at of the row found and
\* writes no row
C19_OneRowPerTypeAndValue ==
    /\ \A r1, r2 \in blocked_entities :
          (r1.type = r2.type /\ r1.value = r2.value) => r1 = r2
    /\ \A i \in 1..Len(breqs) :
          breqs[i].found =>
              /\ breqs[i].pc = "done" /\ breqs[i].status = 200 /\ ~breqs[i].success
              /\ \E row \in blocked_entities :
                    /\ row.type = breqs[i].type /\ row.value = breqs[i].value
                    /\ row.req # i /\ row.blocked_at = breqs[i].blocked_at
              /\ ~WroteRow(i)

\* two runs name the same pair: one has stored the row, the other has found it or has hit
\* the unique constraint
C19_Witness ==
    \E i, j \in 1..Len(breqs) :
        /\ i # j /\ breqs[i].type = breqs[j].type /\ breqs[i].value = breqs[j].value
        /\ \E row \in blocked_entities : row.req = i
        /\ breqs[j].pc = "done" /\ (breqs[j].found \/ breqs[j].status = 500)

\* C23: when a run for type 'ip' has answered success true, blocked_entities holds its row
\* with blocked_by the caller, blocked_attacks holds one row of the run for that source_ip
\* with the auto_blocked flag of the body, and audit_logs holds one 'entity_blocked' row
\* of the run with user_id the caller
C23_SuccessMeansAllRowsWritten ==
    \A i \in 1..Len(breqs) :
        (breqs[i].pc = "done" /\ breqs[i].success /\ breqs[i].type = "ip") =>
            /\ \E row \in blocked_entities :
                  /\ row.req = i /\ row.type = "ip" /\ row.value = breqs[i].value
                  /\ row.blocked_by = breqs[i].auth
            /\ Cardinality({row \in blocked_attacks : row.req = i}) = 1
            /\ \A row \in blocked_attacks :
                  row.req = i => /\ row.source_ip = breqs[i].value
                                 /\ row.auto_blocked = breqs[i].auto_blocked
            /\ Cardinality({row \in audit_logs : row.req = i}) = 1
            /\ \A row \in audit_logs :
                  row.req = i => /\ row.action = "entity_blocked"
                                 /\ row.user_id = breqs[i].auth

(***************************************************************************)
(* useSecurityStats (src/unnamed/part_004): the admin check, the           *)
(* auto-block switch and the auto-block subscription.  hook holds the      *)
(* committed React state of the one mounted hook instance:                 *)
(*   dirty   the passive effects of the last commit have not run yet       *)
(*   queued  setAutoBlockEnabled(false), called by an effect, awaits its   *)
(*           render                                                        *)
(*   ranWith the dependency values the effects last ran with               *)
(*   channel the 'auto-block-realtime' channel is subscribed               *)
(***************************************************************************)
MaxAttacks == 2

MaxManualBlocks == 1

Severities == {"critical", "high", "medium"}

\* source_ip of the n-th row inserted into live_attacks
SourceIps == <<"198.51.100.9", "203.0.113.7", "192.0.2.44">>

\* JSON.stringify of a boolean
JsonStringify(b) == IF b THEN "true" ELSE "false"

\* JSON.parse of a stored boolean
JsonParse(text) == text = "true"

\* useState initialisers: isAdmin false, isRoleLoading true, autoBlockEnabled from localStorage
Mounted(saved) ==
    [mounted |-> TRUE, isAdmin |-> FALSE, isRoleLoading |-> TRUE,
     autoBlockEnabled |-> IF saved # None THEN JsonParse(saved) ELSE FALSE,
     checkAdmin |-> "idle", channel |-> FALSE, dirty |-> TRUE, queued |-> FALSE,
     ranWith |-> <<>>]

Deps(h) == <<h.autoBlockEnabled, h.isAdmin, h.isRoleLoading>>

\* a commit: the effects are due when a dependency changed
Commit(h) == [h EXCEPT !.dirty = (h.ranWith # Deps(h))]

\* the effect "Disable auto-block if user loses admin status" acts
adminLost(h) == ~h.isRoleLoading /\ ~h.isAdmin /\ h.autoBlockEnabled

\* an auto-block effect that forgets the role
subscribes_anyRole(autoBlockEnabled, isAdmin) == autoBlockEnabled

\* the auto-block effect gets past its two guards and subscribes
subscribes(autoBlockEnabled, isAdmin) == autoBlockEnabled /\ isAdmin

\* the auto-block effect runs when [autoBlockEnabled, isAdmin] changed (or at mount):
\* its cleanup removes the channel, its body subscribes again if both hold
autoBlockChannel(h) ==
    IF h.ranWith # <<>> /\ h.ranWith[1] = h.autoBlockEnabled /\ h.ranWith[2] = h.isAdmin
    THEN h.channel
    ELSE subscribes(h.autoBlockEnabled, h.isAdmin)

\* the passive effects of a commit, in source order
RunEffects(h) ==
    [h EXCEPT !.checkAdmin = IF h.checkAdmin = "idle" THEN "getUser" ELSE h.checkAdmin,
              !.queued = h.queued \/ adminLost(h),
              !.channel = autoBlockChannel(h),
              !.ranWith = Deps(h),
              !.dirty = FALSE]

Flushed(h) == IF h.dirty THEN RunEffects(h) ELSE h

\* localStorage after the effects of h ran
StoredAfterEffects(h, stored) ==
    IF h.dirty /\ adminLost(h) THEN JsonStringify(FALSE) ELSE stored

\* an updater without the admin test
Toggled_unguarded(prev, isAdminRef) == ~prev

\* the updater of toggleAutoBlock applied to prev
Toggled(prev, isAdminRef) == IF ~prev /\ ~isAdminRef THEN prev ELSE ~prev

\* toggleAutoBlock in a click handler: React flushes pending effects, renders the queued
\* updates in call order and runs the new commit's effects before the event ends
AfterToggle(h) ==
    LET flushed == Flushed(h)
        prev    == IF h.queued THEN FALSE ELSE flushed.autoBlockEnabled
        value   == IF flushed.queued /\ ~h.queued THEN FALSE
                   ELSE Toggled(prev, flushed.isAdmin)
    IN Flushed(Commit([flushed EXCEPT !.autoBlockEnabled = value, !.queued = FALSE]))

StoredAfterToggle(h, stored) ==
    LET flushed == Flushed(h)
        prev    == IF h.queued THEN FALSE ELSE flushed.autoBlockEnabled
        afterUpdater ==
            IF ~prev /\ ~flushed.isAdmin THEN StoredAfterEffects(h, stored)
            ELSE JsonStringify(~prev)
    IN StoredAfterEffects(
           Commit([flushed EXCEPT !.autoBlockEnabled =
                       IF flushed.queued /\ ~h.queued THEN FALSE
                       ELSE Toggled(prev, flushed.isAdmin),
                   !.queued = FALSE]),
           IF flushed.queued /\ ~h.queued THEN JsonStringify(FALSE) ELSE afterUpdater)

\* what the hook does not touch
OutsideHook == <<urlVars, dbScanVars, scanVars, blockVars, rlsVars>>

\* React runs the pending passive effects
FlushEffects ==
    /\ hook.mounted /\ hook.dirty
    /\ hook' = RunEffects(hook)
    /\ localStorage' = StoredAfterEffects(hook, localStorage)
    /\ UNCHANGED <<OutsideHook, inflight, invocations, live_attacks, delivered, calls>>

\* React renders the update an effect queued
RenderQueued ==
    /\ hook.mounted /\ hook.queued /\ ~hook.dirty
    /\ hook' = Commit([hook EXCEPT !.autoBlockEnabled = FALSE, !.queued = FALSE])
    /\ UNCHANGED <<OutsideHook, localStorage, inflight, invocations, live_attacks, delivered, calls>>

\* setIsAdmin(isAdmin) and setIsRoleLoading(false) of checkAdmin, rendered together;
\* they do nothing once the component is unmounted
RoleChecked(h, isAdmin) ==
    IF ~h.mounted THEN [h EXCEPT !.checkAdmin = "done"]
    ELSE Commit([Flushed(h) EXCEPT !.checkAdmin = "done", !.isAdmin = isAdmin,
                                   !.isRoleLoading = FALSE])

\* checkAdmin after await supabase.auth.getUser(): no user, or on to the rpc
CheckAdminGetUser ==
    /\ hook.checkAdmin = "getUser"
    /\ \E user \in BOOLEAN :
          IF user /\ hook.mounted
          THEN hook' = [hook EXCEPT !.checkAdmin = "rpc"] /\ UNCHANGED localStorage
          ELSE /\ hook' = RoleChecked(hook, FALSE)
               /\ localStorage' = IF hook.mounted THEN StoredAfterEffects(hook, localStorage)
                                  ELSE localStorage
    /\ UNCHANGED <<OutsideHook, inflight, invocations, live_attacks, delivered, calls>>

\* checkAdmin after await supabase.rpc('is_admin', ...): error, or data true / false
CheckAdminRpc ==
    /\ hook.checkAdmin = "rpc"
    /\ \E reply \in {"error", "true", "false"} : hook' = RoleChecked(hook, reply = "true")
    /\ localStorage' = IF hook.mounted THEN StoredAfterEffects(hook, localStorage)
                       ELSE localStorage
    /\ UNCHANGED <<OutsideHook, inflight, invocations, live_attacks, delivered, calls>>

\* the Dashboard switch calls toggleAutoBlock
toggleAutoBlock ==
    /\ hook.mounted
    /\ hook' = AfterToggle(hook)
    /\ localStorage' = StoredAfterToggle(hook, localStorage)
    /\ UNCHANGED <<OutsideHook, inflight, invocations, live_attacks, delivered, calls>>

\* the component unmounts: isMounted = false, supabase.removeChannel(channel)
Unmount ==
    /\ hook.mounted
    /\ hook' = [Flushed(hook) EXCEPT !.mounted = FALSE, !.channel = FALSE]
    /\ localStorage' = StoredAfterEffects(hook, localStorage)
    /\ UNCHANGED <<OutsideHook, inflight, invocations, live_attacks, delivered, calls>>

\* the Dashboard is opened again: a new hook instance; what is left of the old one's
\* checkAdmin finds isMounted false and changes nothing
Remount ==
    /\ ~hook.mounted
    /\ hook' = Mounted(localStorage)
    /\ UNCHANGED <<OutsideHook, localStorage, inflight, invocations, live_attacks, delivered, calls>>

\* supabase.functions.invoke('block-entity', { body })
Invocation(by, attack, auto_blocked) ==
    [by |-> by, type |-> "ip", value |-> attack.source_ip, attack_id |-> attack.id,
     auto_blocked |-> auto_blocked,
     autoBlockEnabled |-> hook.autoBlockEnabled, isAdmin |-> hook.isAdmin]

ManualBlocks == Len(SelectSeq(invocations, LAMBDA inv : inv.by # "auto-block"))

\* blockAttack (no auto_blocked in the body: block-entity defaults it to false) and
\* blockAllAttacks (auto_blocked: false) on one attack; both return early for a non-admin
BlockFromDashboard ==
    /\ hook.mounted /\ ManualBlocks < MaxManualBlocks
    /\ \E attack \in live_attacks, by \in {"blockAttack", "blockAllAttacks"} :
          invocations' = IF hook.isAdmin
                         THEN Append(invocations, Invocation(by, attack, FALSE))
                         ELSE invocations
    /\ UNCHANGED <<OutsideHook, hook, localStorage, inflight, live_attacks, delivered, calls>>

\* a row is inserted into live_attacks; the realtime server sends it to the subscribed
\* channel when it passes the filter severity=in.(critical,high).  The callback does not
\* rely on the filter (it tests the severity again), so a row of another severity may
\* reach it as well
InsertLiveAttack ==
    /\ Cardinality(live_attacks) < MaxAttacks
    /\ \E severity \in Severities, filtered \in BOOLEAN :
          LET attack == [id |-> Cardinality(live_attacks) + 1, severity |-> severity,
                         source_ip |-> SourceIps[Cardinality(live_attacks) + 1]]
          IN /\ live_attacks' = live_attacks \cup {attack}
             /\ inflight' = IF hook.channel /\ (severity \in {"critical", "high"} \/ ~filtered)
                            THEN inflight \cup {attack} ELSE inflight
    /\ UNCHANGED <<OutsideHook, hook, localStorage, invocations, delivered, calls>>

\* the callback's own test of the row: critical or high
blockable_critical(severity) == severity = "critical"

blockable(severity) == ~(severity # "critical" /\ severity # "high")

\* an INSERT event reaches the client: the channel's callback runs if it is still there
DeliverInsert ==
    /\ \E attack \in inflight :
          /\ inflight' = inflight \ {attack}
          /\ delivered' = IF hook.channel THEN delivered \cup {attack.id} ELSE delivered
          /\ invocations' =
                IF hook.channel /\ blockable(attack.severity)
                THEN Append(invocations, Invocation("auto-block", attack, TRUE))
                ELSE invocations
    /\ UNCHANGED <<OutsideHook, hook, localStorage, live_attacks, calls>>

InitAuto ==
    /\ localStorage \in {None, "true", "false"}
    /\ hook = Mounted(localStorage)
    /\ inflight = {} /\ invocations = <<>> /\ live_attacks = {} /\ delivered = {}
    /\ calls = <<>>
    /\ UrlIdle /\ ScanIdle /\ BlockIdle /\ RlsIdle

NextAuto ==
    \/ FlushEffects \/ RenderQueued \/ CheckAdminGetUser \/ CheckAdminRpc
    \/ toggleAutoBlock \/ Unmount \/ Remount \/ BlockFromDashboard \/ InsertLiveAttack \/ DeliverInsert

SpecAuto == InitAuto /\ [][NextAuto]_vars

(***************************************************************************)
(* Properties of the auto-block rule (checked under SpecAuto)              *)
(***************************************************************************)
\* C10: block-entity is invoked with auto_blocked = true only by the subscription's
\* callback on a delivered live_attacks INSERT, at a moment when autoBlockEnabled and
\* isAdmin are both true; and the subscription exists only while both are true, so that
\* an INSERT arriving after either turned false finds no channel
C10_AutoBlockOnlyWhileEnabledAdmin ==
    /\ \A k \in 1..Len(invocations) :
          invocations[k].auto_blocked =>
              /\ invocations[k].by = "auto-block"
              /\ invocations[k].attack_id \in {a.id : a \in live_attacks}
              /\ invocations[k].autoBlockEnabled /\ invocations[k].isAdmin
    /\ hook.channel => (hook.mounted /\ hook.autoBlockEnabled /\ hook.isAdmin)

\* one INSERT was auto-blocked, then auto-block was switched off and a later critical
\* INSERT led to no invocation
C10_Witness ==
    /\ Len(invocations) = 1 /\ invocations[1].auto_blocked /\ invocations[1].attack_id = 1
    /\ ~hook.autoBlockEnabled /\ hook.isAdmin /\ ~hook.channel
    /\ \E a \in live_attacks : a.id = 2 /\ a.severity = "critical"
    /\ inflight = {}

\* the block-entity invocations the auto-block callback made for row a
AutoBlocksOf(a) ==
    {k \in 1..Len(invocations) :
        invocations[k].by = "auto-block" /\ invocations[k].attack_id = a.id}

\* C11: every live_attacks INSERT handed to the callback of the active auto-block
\* subscription with severity critical or high has exactly one block-entity invocation,
\* with type 'ip', the row's source_ip as value, the row's id as attack_id and
\* auto_blocked = true; a handed-over INSERT of any other severity has none
C11_OneInvocationPerDeliveredInsert ==
    \A a \in live_attacks :
        a.id \in delivered =>
            IF a.severity \in {"critical", "high"}
            THEN /\ Cardinality(AutoBlocksOf(a)) = 1
                 /\ \A k \in AutoBlocksOf(a) :
                        /\ invocations[k].type = "ip"
                        /\ invocations[k].value = a.source_ip
                        /\ invocations[k].attack_id = a.id
                        /\ invocations[k].auto_blocked = TRUE
            ELSE AutoBlocksOf(a) = {}

\* a high and a medium INSERT both reached the callback: one invocation, for the high one
C11_Witness ==
    /\ \E a \in live_attacks : a.severity = "high" /\ a.id \in delivered
                                /\ AutoBlocksOf(a) # {}
    /\ \E a \in live_attacks : a.severity = "medium" /\ a.id \in delivered
    /\ Len(invocations) = 1

\* the role check is over, no effect is pending and no update awaits its render
Settled == hook.mounted /\ ~hook.isRoleLoading /\ ~hook.dirty /\ ~hook.queued

\* the value the hook reads from localStorage: absent reads as false
StoredValue == IF localStorage # None THEN JsonParse(localStorage) ELSE FALSE

\* C12: within a mount autoBlockEnabled goes from false to true only when isAdmin is
\* true (it is false while the role check is loading); and in every settled state after
\* role loading autoBlockEnabled implies isAdmin and the stored value equals the state,
\* so that a completed non-admin check leaves both false
C12_AutoBlockNeedsAdmin ==
    /\ [](Settled => /\ hook.autoBlockEnabled => hook.isAdmin
                     /\ StoredValue = hook.autoBlockEnabled)
    /\ [][(hook.mounted /\ hook'.mounted /\ ~hook.autoBlockEnabled
           /\ hook'.autoBlockEnabled) => hook.isAdmin]_vars

\* a hook that started with 'true' in localStorage has finished its role check as
\* non-admin: the switch is off in state and storage
C12_Witness ==
    /\ Settled /\ hook.checkAdmin = "done" /\ ~hook.isAdmin
    /\ ~hook.autoBlockEnabled /\ localStorage = "false"

(***************************************************************************)
(* blockAttack and blockAllAttacks of useSecurityStats.  The repository    *)
(* holds two copies of the hook: src/unnamed/part_004 (used by the         *)
(* Dashboard) and src/src/hooks/useSecurityStats.ts.  calls holds the      *)
(* locals and the position of each call.                                   *)
(***************************************************************************)
MaxCalls == 2

MaxBulk == 2

\* the n-th row of live_attacks shown on the page
Attack(n) == [id |-> n, severity |-> "high", source_ip |-> SourceIps[n]]

\* the arrays handed to blockAllAttacks
AttackLists ==
    {[k \in 1..n |-> Attack(k)] : n \in 0..MaxBulk}
        \cup {[k \in 1..MaxBulk |-> Attack(MaxBulk + 1 - k)]}

\* a call starts: isAdmin is isAdminRef.current, which every render sets to isAdmin
NewCall(fn, variant, attacks) ==
    [fn |-> fn, variant |-> variant, attacks |-> attacks, isAdmin |-> hook.isAdmin,
     next |-> 0, blocked |-> 0, failed |-> 0, pc |-> "invoke", result |-> None]

Returned(c, result) == [c EXCEPT !.pc = "done", !.result = result]

\* { success: failed === 0, blocked, failed }
BulkResult(c) == [success |-> c.failed = 0, blocked |-> c.blocked, failed |-> c.failed]

\* the invocation call i makes for attack
CallInvocation(i, by, attack) == Invocation(by, attack, FALSE) @@ [call |-> i]

\* if (!isAdminRef.current) of blockAttack and blockAllAttacks
refused(isAdminRef) == ~isAdminRef

\* blockAttack of part_004 up to its first await
blockAttack ==
    /\ hook.mounted /\ Len(calls) < MaxCalls
    /\ \E n \in 1..MaxBulk :
          IF refused(hook.isAdmin)
          THEN /\ calls' = Append(calls, Returned(NewCall("blockAttack", "part_004",
                                                          <<Attack(n)>>), FALSE))
               /\ UNCHANGED invocations
          ELSE /\ calls' = Append(calls, [NewCall("blockAttack", "part_004", <<Attack(n)>>)
                                             EXCEPT !.next = 1])
               /\ invocations' = Append(invocations,
                                        CallInvocation(Len(calls) + 1, "blockAttack", Attack(n)))
    /\ UNCHANGED <<OutsideHook, hook, localStorage, inflight, live_attacks, delivered>>

\* blockAttack of src/hooks/useSecurityStats.ts up to its first await: no role test
LegacyBlockAttack ==
    /\ hook.mounted /\ Len(calls) < MaxCalls
    /\ \E n \in 1..MaxBulk :
          /\ calls' = Append(calls, [NewCall("blockAttack", "hooks", <<Attack(n)>>)
                                        EXCEPT !.next = 1])
          /\ invocations' = Append(invocations,
                                   CallInvocation(Len(calls) + 1, "blockAttack", Attack(n)))
    /\ UNCHANGED <<OutsideHook, hook, localStorage, inflight, live_attacks, delivered>>

\* the invocation of a blockAttack call answers: an error gives false, success true
BlockAttackReturns ==
    /\ \E i \in 1..Len(calls) :
          /\ calls[i].fn = "blockAttack" /\ calls[i].pc = "invoke"
          /\ \E error \in BOOLEAN : calls' = [calls EXCEPT ![i] = Returned(@, ~error)]
    /\ UNCHANGED <<OutsideHook, hook, localStorage, inflight, invocations, live_attacks,
                   delivered>>

\* blockAllAttacks up to its first await
blockAllAttacks ==
    /\ hook.mounted /\ Len(calls) < MaxCalls
    /\ \E attacks \in AttackLists :
          IF refused(hook.isAdmin)
          THEN /\ calls' = Append(calls,
                     Returned(NewCall("blockAllAttacks", "part_004", attacks),
                              [success |-> FALSE, blocked |-> 0, failed |-> Len(attacks)]))
               /\ UNCHANGED invocations
          ELSE IF attacks = <<>>
          THEN /\ calls' = Append(calls,
                     Returned(NewCall("blockAllAttacks", "part_004", attacks),
                              BulkResult(NewCall("blockAllAttacks", "part_004", attacks))))
               /\ UNCHANGED invocations
          ELSE /\ calls' = Append(calls, [NewCall("blockAllAttacks", "part_004", attacks)
                                             EXCEPT !.next = 1])
               /\ invocations' = Append(invocations,
                     CallInvocation(Len(calls) + 1, "blockAllAttacks", attacks[1]))
    /\ UNCHANGED <<OutsideHook, hook, localStorage, inflight, live_attacks, delivered>>

\* blocked++ or failed++ after an invocation of the loop answered
Counted(c, error) ==
    IF error THEN [c EXCEPT !.failed = @ + 1] ELSE [c EXCEPT !.blocked = @ + 1]

\* the loop of blockAllAttacks: one invocation answers, the next attack is invoked, or
\* the loop ends and the call returns
BlockAllInvokeReturns ==
    /\ \E i \in 1..Len(calls) :
          /\ calls[i].fn = "blockAllAttacks" /\ calls[i].pc = "invoke"
          /\ \E error \in BOOLEAN :
                IF calls[i].next < Len(calls[i].attacks)
                THEN /\ calls' = [calls EXCEPT ![i] =
                                     [Counted(@, error) EXCEPT !.next = @ + 1]]
                     /\ invocations' = Append(invocations,
                            CallInvocation(i, "blockAllAttacks",
                                           calls[i].attacks[calls[i].next + 1]))
                ELSE /\ calls' = [calls EXCEPT ![i] =
                                     Returned(Counted(@, error), BulkResult(Counted(@, error)))]
                     /\ UNCHANGED invocations
    /\ UNCHANGED <<OutsideHook, hook, localStorage, inflight, live_attacks, delivered>>

InitManual ==
    /\ localStorage = None
    /\ hook = Mounted(localStorage)
    /\ live_attacks = {Attack(n) : n \in 1..MaxBulk}
    /\ inflight = {} /\ invocations = <<>> /\ delivered = {} /\ calls = <<>>
    /\ UrlIdle /\ ScanIdle /\ BlockIdle /\ RlsIdle

NextManual ==
    \/ FlushEffects \/ CheckAdminGetUser \/ CheckAdminRpc
    \/ blockAttack \/ LegacyBlockAttack \/ BlockAttackReturns
    \/ blockAllAttacks \/ BlockAllInvokeReturns

SpecManual == InitManual /\ [][NextManual]_vars

(***************************************************************************)
(* Properties of the manual blocks (checked under SpecManual)              *)
(***************************************************************************)
\* the block-entity invocations call i made, in the order it made them
InvocationsOf(i) == SelectSeq(invocations, LAMBDA inv : inv.call = i)

\* C13: a call of blockAttack or blockAllAttacks made while the admin check is false
\* invokes nothing and has returned false, resp. {success: false, blocked: 0, failed: n};
\* a call of blockAllAttacks by an admin invokes block-entity once per given attack, in
\* order, and returns blocked + failed = n with success true exactly when failed = 0
C13_ManualBlocksNeedAdmin ==
    \A i \in 1..Len(calls) :
        /\ ~calls[i].isAdmin =>
              /\ InvocationsOf(i) = <<>>
              /\ calls[i].pc = "done"
              /\ calls[i].result =
                    IF calls[i].fn = "blockAttack" THEN FALSE
                    ELSE [success |-> FALSE, blocked |-> 0, failed |-> Len(calls[i].attacks)]
        /\ (calls[i].isAdmin /\ calls[i].fn = "blockAllAttacks") =>
              /\ Len(InvocationsOf(i)) = calls[i].next
              /\ \A k \in 1..Len(InvocationsOf(i)) :
                    /\ InvocationsOf(i)[k].type = "ip"
                    /\ InvocationsOf(i)[k].value = calls[i].attacks[k].source_ip
                    /\ InvocationsOf(i)[k].attack_id = calls[i].attacks[k].id
              /\ calls[i].pc = "done" =>
                    /\ calls[i].next = Len(calls[i].attacks)
                    /\ calls[i].result.blocked + calls[i].result.failed = Len(calls[i].attacks)
                    /\ calls[i].result.success <=> (calls[i].result.failed = 0)

(***************************************************************************)
(* The other serverless endpoints: scan-static (third part of              *)
(* src/Backend/supabase/functions/block-entity/index.ts),                  *)
(* multi-agent-analysis, live-threat-stream and monitor-control.  Their    *)
(* runs are records in reqs like those of the scan handlers.               *)
(***************************************************************************)
MaxStreamRows == 1

\* the body's filename: missing, an executable
Filenames == {<<>>, <<"a", ".", "E", "X", "E">>}

\* Authorization headers sent to the handlers that never read them
OpenTokens == {None, "u1"}

ControlTokens == {None, "vic", "ada"}

\* the body's action
ControlActions == {None, "pause", "resume", "status", "stop"}

suspiciousExtensions ==
    {<<"e","x","e">>, <<"d","l","l">>, <<"b","a","t">>, <<"c","m","d">>,
     <<"p","s","1">>, <<"v","b","s">>, <<"j","s">>, <<"j","a","r">>}

\* filename.split('.').pop()?.toLowerCase()
Extension(filename) == ToLowerCase(Split(filename, ".")[Len(Split(filename, "."))])

\* analysisResult.indicators?.length || 0 of scan-static (fallback: one indicator for a
\* suspicious extension)
StaticIndicators(reply, filename) ==
    CASE analyzeWithGemini(reply) = "null" ->
            (IF Extension(filename) \in suspiciousExtensions THEN 1 ELSE 0)
      [] analyzeWithGemini(reply) \in {"clean", "empty"} -> 0
      [] OTHER -> 1

\* scan-static from the body check: no Authorization check, if (!filename) ... 400
StaticArrived(auth, filename) ==
    IF filename = <<>>
    THEN Respond(NewRequest("scan-static", "Backend", auth, filename), 400,
                 "Filename is required")
    ELSE [NewRequest("scan-static", "Backend", auth, filename) EXCEPT !.pc = "monitoring"]

\* scan-static after the monitoring_status read: 403, or on to the LLM
StaticMonitoringRead(r) ==
    IF monitoring_status = "paused" THEN MonitoringRead(r)
    ELSE [r EXCEPT !.read = monitoring_status, !.pc = "llm"]

\* if (analysisResult.is_malicious): the fallback sets false, only an LLM analysis says so
StaticResultStored(r) ==
    IF r.analysis = "vulnerable" THEN [r EXCEPT !.pc = "threats"] ELSE Completed(r)

\* await supabase.from('scan_results').insert({ scan_type: 'static', ... }): no created_by
InsertStaticResult(i) ==
    /\ scan_results' = scan_results \cup
          {[req |-> i, by |-> reqs[i].fn, scan_type |-> "static", target |-> reqs[i].url,
            status |-> "completed", result |-> reqs[i].analysis,
            threats_found |-> reqs[i].threats_found, created_by |-> None]}
    /\ reqs' = [reqs EXCEPT ![i] = StaticResultStored(reqs[i])]
    /\ UNCHANGED <<OutsideScan, threats, audit_logs, httpLog, llmLog>>

\* the scan-static serve handler
ScanStatic ==
    \/ /\ Len(reqs) < MaxRequests
       /\ \E auth \in OpenTokens, filename \in Filenames :
             Arrive(StaticArrived(auth, filename))
    \/ \E i \in 1..Len(reqs) :
        \/ /\ At(i, "scan-static", "Backend", "monitoring")
           /\ Proceed(i, StaticMonitoringRead(reqs[i]))
        \/ /\ At(i, "scan-static", "Backend", "llm")
           /\ \E reply \in LlmReplies :
                 CallLlm(i, reqs[i].url, reply, StaticIndicators(reply, reqs[i].url))
        \/ /\ At(i, "scan-static", "Backend", "scan_results")
           /\ InsertStaticResult(i)
        \/ /\ At(i, "scan-static", "Backend", "threats")
           /\ InsertThreat(i, "file", reqs[i].url, Completed(reqs[i]))

\* the multi-agent-analysis serve handler: no Authorization check; the five agents'
\* prompts go to the LLM endpoint (Promise.all), then the 200 response
MultiAgentAnalysis ==
    \/ /\ Len(reqs) < MaxRequests
       /\ \E auth \in OpenTokens :
             Arrive([NewRequest("multi-agent-analysis", "Backend", auth, <<>>)
                        EXCEPT !.pc = "llm"])
    \/ \E i \in 1..Len(reqs) :
        /\ At(i, "multi-agent-analysis", "Backend", "llm")
        /\ llmLog' = llmLog \cup {[req |-> i, url |-> <<>>]}
        /\ reqs' = [reqs EXCEPT ![i] = Completed(reqs[i])]
        /\ UNCHANGED <<OutsideScan, scan_results, threats, audit_logs, httpLog>>

\* live-threat-stream after auth.getUser()
StreamAuthenticated(r) ==
    IF r.auth = "bad" THEN Respond(r, 401, "Invalid or expired authentication token")
    ELSE [r EXCEPT !.user = r.auth, !.pc = "monitoring"]

\* live-threat-stream after the monitoring_status read: paused gives a 200 response with
\* an empty realtimeAttacks list
StreamMonitoringRead(r) ==
    IF monitoring_status = "paused"
    THEN Respond([r EXCEPT !.read = monitoring_status, !.realtimeAttacks = <<>>], 200,
                 "Monitoring is paused")
    ELSE [r EXCEPT !.read = monitoring_status, !.pc = "llm"]

\* the row stored for the n-th generated attack
StreamRow(severity) ==
    [id |-> Cardinality(live_attacks) + 1, severity |-> severity,
     source_ip |-> SourceIps[(Cardinality(live_attacks) % Len(SourceIps)) + 1]]

\* what live-threat-stream and monitor-control leave alone
OutsideOps ==
    <<urlVars, blockVars, rlsVars, blocked_entities, hook, localStorage, inflight,
      invocations, delivered, calls>>

\* the live-threat-stream serve handler
LiveThreatStream ==
    \/ /\ Len(reqs) < MaxRequests
       /\ \E auth \in ScanTokens : Arrive(Arrived("live-threat-stream", auth, <<>>))
    \/ \E i \in 1..Len(reqs) :
        \/ /\ At(i, "live-threat-stream", "Backend", "getUser")
           /\ Proceed(i, StreamAuthenticated(reqs[i]))
        \/ /\ At(i, "live-threat-stream", "Backend", "monitoring")
           /\ Proceed(i, StreamMonitoringRead(reqs[i]))
        \/ /\ At(i, "live-threat-stream", "Backend", "llm")
           /\ \E generated \in [1..MaxStreamRows -> Severities] :
                 reqs' = [reqs EXCEPT ![i] = [@ EXCEPT !.realtimeAttacks = generated,
                                                       !.pc = "live_attacks"]]
           /\ llmLog' = llmLog \cup {[req |-> i, url |-> <<>>]}
           /\ UNCHANGED <<OutsideScan, scan_results, threats, audit_logs, httpLog>>
        \/ /\ At(i, "live-threat-stream", "Backend", "live_attacks")
           /\ live_attacks' =
                 live_attacks \cup {StreamRow(reqs[i].realtimeAttacks[reqs[i].next + 1])}
           /\ reqs' = [reqs EXCEPT ![i] =
                          IF reqs[i].next + 1 < Len(reqs[i].realtimeAttacks)
                          THEN [@ EXCEPT !.next = @ + 1]
                          ELSE Completed([@ EXCEPT !.next = @ + 1])]
           /\ UNCHANGED <<OutsideOps, monitoring_status, scan_results, threats, audit_logs,
                          httpLog, llmLog>>

\* monitor-control from the body check: no Authorization check
ControlArrived(auth, action) ==
    IF action \notin {"pause", "resume", "status"}
    THEN Respond([NewRequest("monitor-control", "Backend", auth, <<>>)
                     EXCEPT !.action = action],
                 400, "Invalid action. Use: pause, resume, or status")
    ELSE [NewRequest("monitor-control", "Backend", auth, <<>>)
             EXCEPT !.action = action, !.pc = "monitoring"]

\* monitor-control after reading the current status: 'status' answers it
ControlRead(r) ==
    IF r.action = "status" THEN Completed([r EXCEPT !.read = monitoring_status])
    ELSE [r EXCEPT !.read = monitoring_status, !.pc = "update"]

\* a handler that pauses on every action
newStatus_alwaysPaused(action) == "paused"

\* const newStatus = action === 'pause' ? 'paused' : 'active'
newStatus(action) == IF action = "pause" THEN "paused" ELSE "active"

\* the monitor-control serve handler
MonitorControl ==
    \/ /\ Len(reqs) < MaxRequests
       /\ \E auth \in ControlTokens, action \in ControlActions :
             Arrive(ControlArrived(auth, action))
    \/ \E i \in 1..Len(reqs) :
        \/ /\ At(i, "monitor-control", "Backend", "monitoring")
           /\ Proceed(i, ControlRead(reqs[i]))
        \/ /\ At(i, "monitor-control", "Backend", "update")
           /\ monitoring_status' = newStatus(reqs[i].action)
           /\ reqs' = [reqs EXCEPT ![i].pc = "audit_logs"]
           /\ UNCHANGED <<OutsideOps, live_attacks, scan_results, threats, audit_logs,
                          httpLog, llmLog>>
        \/ /\ At(i, "monitor-control", "Backend", "audit_logs")
           /\ audit_logs' = audit_logs \cup
                 {[req |-> i, by |-> reqs[i].fn, user_id |-> None,
                   action |-> reqs[i].action]}
           /\ reqs' = [reqs EXCEPT ![i] = Completed(reqs[i])]
           /\ UNCHANGED <<OutsideScan, scan_results, threats, httpLog, llmLog>>

InitOps == InitScan

NextOps ==
    \/ ScanWebsite \/ ScanApi \/ AnalyzeQr
    \/ LegacyScanWebsite \/ LegacyScanApi \/ LegacyAnalyzeQr
    \/ ScanStatic \/ MultiAgentAnalysis \/ LiveThreatStream \/ MonitorControl

SpecOps == InitOps /\ [][NextOps]_vars

(***************************************************************************)
(* Properties of the endpoints (checked under SpecOps)                     *)
(***************************************************************************)
\* C15: a run of any endpoint that came without an Authorization header, or with a token
\* that resolves to no user, gets no further than the authentication, is answered 401 and
\* has made no outbound call and no database write
C15_EveryEndpointNeedsAuth ==
    \A i \in 1..Len(reqs) :
        reqs[i].auth \in {None, "bad"} =>
            /\ reqs[i].pc \in {"getUser", "done"}
            /\ reqs[i].pc = "done" => reqs[i].status = 401
            /\ Untouched(i)

\* the step is the update made by a monitor-control run whose caller presented the token of
\* a user holding the admin role
AdminUpdatesMonitoring(i) ==
    /\ reqs[i].fn = "monitor-control" /\ reqs[i].pc = "update"
    /\ reqs[i].auth \in Users /\ is_admin(reqs[i].auth)

\* C16: the stored monitoring status changes only in a step taken for a request made by an
\* authenticated user who holds the admin role
C16_OnlyAdminsChangeMonitoring ==
    [][monitoring_status' # monitoring_status =>
          \E i \in 1..Len(reqs) : AdminUpdatesMonitoring(i) /\ reqs'[i].pc # reqs[i].pc]_vars

ScanFunctions == {"scan-website", "scan-api", "analyze-qr", "scan-static"}

\* C20: a scan run that read the status 'paused' is answered 403 and has sent no target
\* request, made no LLM call and inserted no row; a live-threat-stream run that read
\* 'paused' returns an empty realtimeAttacks list and has inserted no live_attacks row
C20_PausedMonitoringStopsScans ==
    \A i \in 1..Len(reqs) :
        reqs[i].read = "paused" =>
            /\ reqs[i].fn \in ScanFunctions =>
                  reqs[i].pc = "done" /\ reqs[i].status = 403 /\ Untouched(i)
            /\ reqs[i].fn = "live-threat-stream" =>
                  /\ reqs[i].pc = "done" /\ reqs[i].next = 0
                  /\ reqs[i].realtimeAttacks = <<>>
                  /\ \A e \in llmLog : e.req # i

\* while monitoring is paused a scan has been answered 403 and a live-threat-stream run has
\* returned its empty list
C20_Witness ==
    \E i, j \in 1..Len(reqs) :
        /\ reqs[i].fn \in ScanFunctions /\ reqs[i].read = "paused" /\ reqs[i].status = 403
        /\ reqs[j].fn = "live-threat-stream" /\ reqs[j].read = "paused"
        /\ reqs[j].pc = "done"

\* C21: no step of a scan handler or of live-threat-stream inserts a scan_results, threats
\* or live_attacks row while the stored monitoring status is 'paused'
C21_NoInsertWhilePaused ==
    [][(scan_results' # scan_results \/ threats' # threats \/ live_attacks' # live_attacks)
          => monitoring_status # "paused"]_vars

\* run i of monitor-control has made its update
Updated(i) ==
    /\ reqs[i].fn = "monitor-control" /\ reqs[i].action \in {"pause", "resume"}
    /\ reqs[i].pc \in {"audit_logs", "done"}

\* run i of monitor-control makes its update in this step
Updates(i) ==
    /\ reqs[i].fn = "monitor-control" /\ reqs[i].pc = "update"
    /\ reqs'[i].pc = "audit_logs"

\* C22: the monitoring status is always 'active' or 'paused'; it is written only by the
\* update of a pause or resume request, which leaves it 'paused' for pause and 'active'
\* for resume, so it shows the latest of these requests (when one request has made its
\* update, the status is that request's); a 'status' request and a request with a
\* missing or unknown action change neither monitoring_status nor audit_logs
C22_StatusFollowsLastPauseOrResume ==
    /\ [](/\ monitoring_status \in {"active", "paused"}
          /\ \A i \in 1..Len(reqs) :
                (Updated(i) /\ \A j \in 1..Len(reqs) : Updated(j) => j = i) =>
                    monitoring_status = IF reqs[i].action = "pause" THEN "paused"
                                        ELSE "active")
    /\ [][/\ \A i \in 1..Len(reqs) :
               Updates(i) => /\ reqs[i].action \in {"pause", "resume"}
                             /\ monitoring_status' = IF reqs[i].action = "pause"
                                                     THEN "paused" ELSE "active"
          /\ (\A i \in 1..Len(reqs) : ~Updates(i)) =>
                 monitoring_status' = monitoring_status
          /\ \A i \in 1..Len(reqs') :
               (/\ reqs'[i].fn = "monitor-control"
                /\ reqs'[i].action \notin {"pause", "resume"}
                /\ (i > Len(reqs) \/ reqs'[i] # reqs[i])) =>
                   monitoring_status' = monitoring_status /\ audit_logs' = audit_logs]_vars

\* a pause request has paused the active monitoring, and a status request after it has
\* read 'paused' and written nothing
C22_Witness ==
    /\ monitoring_status = "paused"
    /\ \E i, k \in 1..Len(reqs) :
          /\ Updated(i) /\ reqs[i].action = "pause" /\ reqs[i].read = "active"
          /\ reqs[i].pc = "done"
          /\ reqs[k].fn = "monitor-control" /\ reqs[k].action = "status"
          /\ reqs[k].pc = "done" /\ reqs[k].read = "paused"
          /\ \A row \in audit_logs : row.req # k

(***************************************************************************)
(* Row-level security: the policies the migrations leave on user_roles,    *)
(* scan_results and monitoring_status, the sign-up trigger, and the        *)
(* statements a signed-in client sends to the database                     *)
(***************************************************************************)
MaxSignUps == 1

MaxScanRows == 2

MaxStatements == 3

\* the ids given to the users who sign up, in order
SignUpIds == <<"sam", "sue">>

\* CREATE TYPE app_role AS ENUM ('admin', 'analyst', 'viewer')
app_role == {"admin", "analyst", "viewer"}

\* CREATE POLICY name ON table FOR cmd TO to USING (using) WITH CHECK (check); None: the
\* clause is absent
Policy(name, table, cmd, to, using, check) ==
    [name |-> name, table |-> table, cmd |-> cmd, to |-> to, using |-> using,
     check |-> check]

Create(policy) == [stmt |-> "CREATE POLICY", policy |-> policy]

\* DROP POLICY IF EXISTS name ON table
Drop(name, table) == [stmt |-> "DROP POLICY", name |-> name, table |-> table]

AdminRowExists ==
    "EXISTS (SELECT 1 FROM user_roles WHERE user_id = auth.uid() AND role = 'admin')"

\* the schema migration: the first policies of the three tables
InitialSchema ==
    << Create(Policy("Authenticated users can view monitoring status",
                     "monitoring_status", "SELECT", "authenticated", "true", None)),
       Create(Policy("Authenticated users can update monitoring status",
                     "monitoring_status", "UPDATE", "authenticated", "true", None)),
       Create(Policy("Users can view all roles",
                     "user_roles", "SELECT", "authenticated", "true", None)),
       Create(Policy("Admins can manage roles",
                     "user_roles", "ALL", "authenticated", AdminRowExists, None)),
       Create(Policy("Authenticated users can view scans",
                     "scan_results", "SELECT", "authenticated", "true", None)),
       Create(Policy("Authenticated users can create scans",
                     "scan_results", "INSERT", "authenticated", None, "true")),
       Create(Policy("Authenticated users can update scans",
                     "scan_results", "UPDATE", "authenticated", "true", None)),
       Create(Policy("Service role can manage scans",
                     "scan_results", "ALL", "service_role", "true", None)) >>

\* migration 20251227143309: users view their own role, admins view all
RoleViewFix ==
    << Drop("Users can view all roles", "user_roles"),
       Create(Policy("Users can view roles", "user_roles", "SELECT", "authenticated",
                     "auth.uid() = user_id OR is_admin(auth.uid())", None)) >>

\* a fix of the scan_results policies that leaves the first ones in place
ScanFix_keepsOld ==
    << Create(Policy("Users can view own scans or admin sees all",
                     "scan_results", "SELECT", "authenticated",
                     "created_by = auth.uid() OR is_admin(auth.uid())", None)),
       Create(Policy("Users can create own scans",
                     "scan_results", "INSERT", "authenticated", None,
                     "created_by = auth.uid()")),
       Create(Policy("Users can update own scans",
                     "scan_results", "UPDATE", "authenticated",
                     "created_by = auth.uid() OR is_admin(auth.uid())", None)) >>

\* migration 20251227144222: users see their own scans, admins see all
ScanFix ==
    << Drop("Authenticated users can view scans", "scan_results"),
       Drop("Authenticated users can create scans", "scan_results"),
       Drop("Authenticated users can update scans", "scan_results"),
       Create(Policy("Users can view own scans or admin sees all",
                     "scan_results", "SELECT", "authenticated",
                     "created_by = auth.uid() OR is_admin(auth.uid())", None)),
       Create(Policy("Users can create own scans",
                     "scan_results", "INSERT", "authenticated", None,
                     "created_by = auth.uid()")),
       Create(Policy("Users can update own scans",
                     "scan_results", "UPDATE", "authenticated",
                     "created_by = auth.uid() OR is_admin(auth.uid())", None)) >>

\* migration 20251227144839: only admins update the monitoring status
MonitoringFix ==
    << Drop("Authenticated users can update monitoring status", "monitoring_status"),
       Create(Policy("Admins can update monitoring status", "monitoring_status",
                     "UPDATE", "authenticated", "is_admin(auth.uid())", None)) >>

\* the schema migration: the first policies of audit_logs and incidents
IncidentSchema ==
    << Create(Policy("Authenticated users can view audit logs",
                     "audit_logs", "SELECT", "authenticated", "true", None)),
       Create(Policy("Authenticated users can create audit logs",
                     "audit_logs", "INSERT", "authenticated", None, "true")),
       Create(Policy("Authenticated users can view incidents",
                     "incidents", "SELECT", "authenticated", "true", None)),
       Create(Policy("Authenticated users can manage incidents",
                     "incidents", "ALL", "authenticated", "true", None)) >>

\* migration 20251227144222: users see assigned/created incidents, admins see all
IncidentFix ==
    << Drop("Authenticated users can view incidents", "incidents"),
       Drop("Authenticated users can manage incidents", "incidents"),
       Create(Policy("Users can view relevant incidents", "incidents", "SELECT",
                     "authenticated",
                     "assigned_to = auth.uid() OR created_by = auth.uid() OR is_admin(auth.uid())",
                     None)),
       Create(Policy("Admins can manage all incidents", "incidents", "ALL",
                     "authenticated", "is_admin(auth.uid())", None)),
       Create(Policy("Users can create incidents", "incidents", "INSERT",
                     "authenticated", None, "created_by = auth.uid()")),
       Create(Policy("Users can update assigned incidents", "incidents", "UPDATE",
                     "authenticated", "assigned_to = auth.uid() OR created_by = auth.uid()",
                     None)) >>

\* the migrations in the order they apply: the schema first (the later ones name its tables
\* and policies), then by timestamp
Migrations ==
    InitialSchema \o IncidentSchema \o RoleViewFix \o ScanFix \o IncidentFix \o MonitoringFix

\* the policies in force after running the statements on a database that has policies
RECURSIVE Applied(_, _)
Applied(stmts, policies) ==
    IF stmts = <<>> THEN policies
    ELSE LET s == Head(stmts)
         IN  Applied(Tail(stmts),
                     IF s.stmt = "CREATE POLICY" THEN policies \cup {s.policy}
                     ELSE {p \in policies : ~(p.name = s.name /\ p.table = s.table)})

Policies == Applied(Migrations, {})

\* a sub-select that finds a user_roles row of any role for the caller
admin_row_exists_any(uid) == \E row \in user_roles : row.user_id = uid

\* EXISTS (SELECT 1 FROM user_roles WHERE user_id = auth.uid() AND role = 'admin'), run as
\* the caller, who sees the own row
admin_row_exists(uid) == \E row \in user_roles : row.user_id = uid /\ row.role = "admin"

\* the value of a policy's expression for the caller uid and a row (a comparison with NULL
\* is not true)
Qual(qual, uid, row) ==
    CASE qual = "true" -> TRUE
      [] qual = "is_admin(auth.uid())" -> is_admin(uid)
      [] qual = "auth.uid() = user_id OR is_admin(auth.uid())" ->
            uid = row.user_id \/ is_admin(uid)
      [] qual = "created_by = auth.uid()" -> row.created_by = uid
      [] qual = "created_by = auth.uid() OR is_admin(auth.uid())" ->
            row.created_by = uid \/ is_admin(uid)
      [] qual = "assigned_to = auth.uid() OR created_by = auth.uid()" ->
            row.assigned_to = uid \/ row.created_by = uid
      [] qual = "assigned_to = auth.uid() OR created_by = auth.uid() OR is_admin(auth.uid())" ->
            row.assigned_to = uid \/ row.created_by = uid \/ is_admin(uid)
      [] qual = AdminRowExists -> admin_row_exists(uid)

\* the policies that apply to a command of the role authenticated on a table; permissive
\* policies are OR-ed
Applicable(table, cmd) ==
    {p \in Policies : p.table = table /\ p.to = "authenticated" /\ p.cmd \in {cmd, "ALL"}}

\* WITH CHECK defaults to the USING expression
WithCheck(p) == IF p.check = None THEN p.using ELSE p.check

Visible(uid, table, row) ==
    \E p \in Applicable(table, "SELECT") : Qual(p.using, uid, row)

MayInsert(uid, table, row) ==
    \E p \in Applicable(table, "INSERT") : Qual(WithCheck(p), uid, row)

\* an UPDATE or DELETE with a WHERE clause reads the rows, so they pass the SELECT policies
MayUpdate(uid, table, old, new) ==
    /\ Visible(uid, table, old)
    /\ \E p \in Applicable(table, "UPDATE") : Qual(p.using, uid, old)
    /\ \E p \in Applicable(table, "UPDATE") : Qual(WithCheck(p), uid, new)
    /\ Visible(uid, table, new)

MayDelete(uid, table, row) ==
    /\ Visible(uid, table, row)
    /\ \E p \in Applicable(table, "DELETE") : Qual(p.using, uid, row)

\* a policy on user_roles whose expression selects from user_roles: the sub-select is under
\* the same policies again
Recursive(table) ==
    \E p \in Policies : p.table = table /\ p.table = "user_roles"
                        /\ p.to = "authenticated" /\ p.using = AdminRowExists

\* UNIQUE(user_id)
UniqueUserId(rows, row) == \A other \in rows : other.user_id # row.user_id

\* what a statement did: its number, who sent it, the command, the rows returned or the
\* number of rows written, and the error
Statement(by, cmd, table, rows, count, error) ==
    [n |-> statement.n + 1, by |-> by, cmd |-> cmd, table |-> table, rows |-> rows,
     count |-> count, error |-> error]

OutsideRls ==
    <<urlVars, scanVars, hookVars, breqs, blocked_attacks, realtime_logs,
      blocked_entities, threats, audit_logs, incidents>>

\* a user signs up: the row of auth.users fires on_auth_user_created, and handle_new_user
\* (SECURITY DEFINER) inserts the role row
SignUp ==
    /\ statement.n < MaxStatements
    /\ Cardinality(auth_users) - Cardinality(Users) < MaxSignUps
    /\ LET id  == SignUpIds[Cardinality(auth_users) - Cardinality(Users) + 1]
           row == [user_id |-> id, role |-> "viewer"]
       IN  /\ UniqueUserId(user_roles, row)
           /\ auth_users' = auth_users \cup {id}
           /\ user_roles' = user_roles \cup {row}
           /\ statement' = Statement("handle_new_user", "INSERT", "user_roles", {}, 1, None)
    /\ UNCHANGED <<OutsideRls, monitoring_status, scan_results>>

\* the statement of a client on user_roles leaves the table as it is
RoleStatementFails(uid, cmd, error) ==
    /\ statement' = Statement(uid, cmd, "user_roles", {}, 0, error)
    /\ UNCHANGED <<OutsideRls, auth_users, user_roles, monitoring_status, scan_results>>

\* supabase.from('user_roles').insert({ user_id, role }) sent with the token of uid
ClientInsertRole(uid, user_id, role, detected) ==
    LET row == [user_id |-> user_id, role |-> role]
    IN  IF Recursive("user_roles") /\ detected
        THEN RoleStatementFails(uid, "INSERT", "42P17 infinite recursion detected in policy")
        ELSE IF ~MayInsert(uid, "user_roles", row)
        THEN RoleStatementFails(uid, "INSERT", "42501 row-level security policy")
        ELSE IF user_id \notin auth_users
        THEN RoleStatementFails(uid, "INSERT", "23503 foreign key")
        ELSE IF ~UniqueUserId(user_roles, row)
        THEN RoleStatementFails(uid, "INSERT", "23505 unique constraint")
        ELSE /\ user_roles' = user_roles \cup {row}
             /\ statement' = Statement(uid, "INSERT", "user_roles", {}, 1, None)
             /\ UNCHANGED <<OutsideRls, auth_users, monitoring_status, scan_results>>

\* supabase.from('user_roles').update({ role }).eq('user_id', user_id) sent with the token
\* of uid: the rows the policies let uid update get the role
ClientUpdateRole(uid, user_id, role, detected) ==
    LET hit == {row \in user_roles :
                   /\ row.user_id = user_id
                   /\ Visible(uid, "user_roles", row)
                   /\ \E p \in Applicable("user_roles", "UPDATE") : Qual(p.using, uid, row)}
    IN  IF Recursive("user_roles") /\ detected
        THEN RoleStatementFails(uid, "UPDATE", "42P17 infinite recursion detected in policy")
        ELSE IF \E row \in hit :
                   ~MayUpdate(uid, "user_roles", row, [row EXCEPT !.role = role])
        THEN RoleStatementFails(uid, "UPDATE", "42501 row-level security policy")
        ELSE /\ user_roles' = (user_roles \ hit) \cup {[row EXCEPT !.role = role] : row \in hit}
             /\ statement' = Statement(uid, "UPDATE", "user_roles", {}, Cardinality(hit), None)
             /\ UNCHANGED <<OutsideRls, auth_users, monitoring_status, scan_results>>

\* DELETE FROM user_roles WHERE user_id = ... sent with the token of uid
ClientDeleteRole(uid, user_id, detected) ==
    LET hit == {row \in user_roles :
                   row.user_id = user_id /\ MayDelete(uid, "user_roles", row)}
    IN  IF Recursive("user_roles") /\ detected
        THEN RoleStatementFails(uid, "DELETE", "42P17 infinite recursion detected in policy")
        ELSE /\ user_roles' = user_roles \ hit
             /\ statement' = Statement(uid, "DELETE", "user_roles", {}, Cardinality(hit), None)
             /\ UNCHANGED <<OutsideRls, auth_users, monitoring_status, scan_results>>

\* the row a scanner page saves
PageScanRow(n, created_by) ==
    [req |-> n, by |-> "WebsiteScanner", scan_type |-> "website", target |-> <<>>,
     status |-> "completed",
     result |-> "clean", threats_found |-> 0, created_by |-> created_by]

\* the row scan-static stores with the service-role key: no created_by
StaticScanRow ==
    [req |-> 0, by |-> "scan-static", scan_type |-> "static", target |-> <<>>,
     status |-> "completed",
     result |-> "clean", threats_found |-> 0, created_by |-> None]

\* supabase.from('scan_results').insert({ ..., created_by }) sent with the token of uid
ClientInsertScan(uid, created_by) ==
    LET row == PageScanRow(Cardinality(scan_results), created_by)
    IN  /\ Cardinality(scan_results) <= MaxScanRows
        /\ IF MayInsert(uid, "scan_results", row)
           THEN /\ scan_results' = scan_results \cup {row}
                /\ statement' = Statement(uid, "INSERT", "scan_results", {}, 1, None)
           ELSE /\ statement' = Statement(uid, "INSERT", "scan_results", {}, 0,
                                          "42501 row-level security policy")
                /\ UNCHANGED scan_results
        /\ UNCHANGED <<OutsideRls, auth_users, user_roles, monitoring_status>>

\* SELECT * FROM scan_results sent with the token of uid
ClientSelectScans(uid) ==
    /\ statement' = Statement(uid, "SELECT", "scan_results",
                              {row \in scan_results : Visible(uid, "scan_results", row)},
                              0, None)
    /\ UNCHANGED <<OutsideRls, auth_users, user_roles, monitoring_status, scan_results>>

\* UPDATE monitoring_status SET status = ... sent with the token of uid
ClientUpdateMonitoring(uid, status) ==
    LET updated == MayUpdate(uid, "monitoring_status", monitoring_status, status)
    IN  /\ monitoring_status' = IF updated THEN status ELSE monitoring_status
        /\ statement' = Statement(uid, "UPDATE", "monitoring_status", {},
                                  IF updated THEN 1 ELSE 0, None)
        /\ UNCHANGED <<OutsideRls, auth_users, user_roles, scan_results>>

InitRls ==
    /\ auth_users = Users /\ statement = NoStatement /\ incidents = {}
    /\ user_roles = RoleRows
    /\ monitoring_status = "active" /\ scan_results = {StaticScanRow}
    /\ breqs = <<>> /\ blocked_attacks = {} /\ realtime_logs = {}
    /\ reqs = <<>> /\ httpLog = {} /\ llmLog = {}
    /\ blocked_entities = {} /\ threats = {} /\ audit_logs = {}
    /\ UrlIdle /\ HookIdle

\* the user ids a statement may name
UserIds == Users \cup Range(SignUpIds)

NextRls ==
    \/ SignUp
    \/ /\ statement.n < MaxStatements
       /\ \E uid \in auth_users, user_id \in UserIds, role \in app_role,
             detected \in BOOLEAN : ClientInsertRole(uid, user_id, role, detected)
    \/ /\ statement.n < MaxStatements
       /\ \E uid \in auth_users, user_id \in UserIds, role \in app_role,
             detected \in BOOLEAN : ClientUpdateRole(uid, user_id, role, detected)
    \/ /\ statement.n < MaxStatements
       /\ \E uid \in auth_users, user_id \in UserIds, detected \in BOOLEAN :
             ClientDeleteRole(uid, user_id, detected)
    \/ /\ statement.n < MaxStatements
       /\ \E uid \in auth_users, created_by \in auth_users \cup {None} :
             ClientInsertScan(uid, created_by)
    \/ /\ statement.n < MaxStatements
       /\ \E uid \in auth_users : ClientSelectScans(uid)
    \/ /\ statement.n < MaxStatements
       /\ \E uid \in auth_users, status \in {"active", "paused"} :
             ClientUpdateMonitoring(uid, status)

SpecRls == InitRls /\ [][NextRls]_vars

(***************************************************************************)
(* Properties of the policies (checked under SpecRls)                      *)
(***************************************************************************)
\* the step is the sign-up trigger giving a new user the viewer role
TriggerInsertsViewer ==
    /\ statement'.by = "handle_new_user"
    /\ \E id \in auth_users' \ auth_users :
          user_roles' = user_roles \cup {[user_id |-> id, role |-> "viewer"]}

\* C17: a step that inserts, updates or deletes a user_roles row is the sign-up trigger
\* inserting 'viewer' for the new user, or a statement of a user who holds the admin role
\* when it runs (so no other user raises a role); no user ever has two role rows
C17_RolesChangeOnlyByTriggerOrAdmin ==
    /\ [](\A r1, r2 \in user_roles : r1.user_id = r2.user_id => r1 = r2)
    /\ [][user_roles' # user_roles =>
             \/ TriggerInsertsViewer
             \/ statement'.by \in auth_users /\ is_admin(statement'.by)]_vars

\* a signed-up user holds the viewer row of the trigger and has just sent a statement that
\* would raise a role, which changed no row
C17_Witness ==
    /\ statement.by \in Range(SignUpIds) /\ statement.table = "user_roles"
    /\ statement.cmd \in {"INSERT", "UPDATE"} /\ statement.count = 0
    /\ [user_id |-> statement.by, role |-> "viewer"] \in user_roles

\* C18: with all migrations applied, a SELECT on scan_results returns to a user without the
\* admin role exactly the rows whose created_by is that user, and to an admin every row
C18_ScanRowsReadByOwnerOrAdmin ==
    (statement.cmd = "SELECT" /\ statement.table = "scan_results") =>
        statement.rows = IF is_admin(statement.by) THEN scan_results
                         ELSE {row \in scan_results : row.created_by = statement.by}

\* a user without the admin role has read the table while it holds an own row, a row of
\* another user and a row without created_by
C18_Witness ==
    /\ statement.cmd = "SELECT" /\ statement.table = "scan_results"
    /\ ~is_admin(statement.by)
    /\ \E own, other, nobody \in scan_results :
          /\ own.created_by = statement.by
          /\ other.created_by \in auth_users \ {statement.by}
          /\ nobody.created_by = None

(***************************************************************************)
(* Unblocking from the Blocked Attacks page, next to block-entity          *)
(***************************************************************************)
MaxUnblocks == 1

\* unblockAttack(id, sourceIp) of the page, signed in as uid: DELETE FROM blocked_attacks
\* WHERE id = ...; the policy 'Admins can manage blocked attacks' lets an admin's
\* statement delete the row, another user's statement deletes nothing and has no error
unblockAttack(uid, row) ==
    LET deleted == IF is_admin(uid) THEN {row} ELSE {}
    IN  /\ blocked_attacks' = blocked_attacks \ deleted
        /\ statement' = Statement(uid, "DELETE", "blocked_attacks", deleted,
                                  Cardinality(deleted), None)
        /\ UNCHANGED <<urlVars, dbScanVars, scanVars, hookVars, breqs, user_roles,
                       realtime_logs, auth_users, incidents>>

NextUnblock ==
    \/ BlockEntity
    \/ /\ statement.n < MaxUnblocks
       /\ \E uid \in auth_users, row \in blocked_attacks : unblockAttack(uid, row)

SpecUnblock == InitBlock /\ [][NextUnblock]_vars

\* C24: when unblockAttack has removed the block of an IP, no blocked_entities row of type
\* 'ip' is left for that IP (so the stream no longer filters it and a later block-entity
\* request for it stores a new block)
C24_UnblockUndoesBlock ==
    [][(statement' # statement /\ statement'.table = "blocked_attacks") =>
          \A row \in statement'.rows :
              ~\E entity \in blocked_entities' :
                  entity.type = "ip" /\ entity.value = row.source_ip]_vars

(***************************************************************************)
(* The Website Scanner page                                                *)
(* (src/Frontend/src/pages/scanner/WebsiteScanner.tsx): startScan invokes  *)
(* scan-website with the session of the signed-in user and saves the       *)
(* answer.  The field page of a run tells where the page's startScan       *)
(* stands: "awaiting" the answer, "completed" or back to "idle" after an   *)
(* error; "none" is a run that no page started.                            *)
(***************************************************************************)
\* startScan up to supabase.functions.invoke('scan-website', { body: { url } })
startScan(uid, url) ==
    /\ url # <<>>
    /\ Arrive([Arrived("scan-website", uid, url) EXCEPT !.page = "awaiting"])

\* startScan after the answer: a non-2xx answer is thrown and caught; otherwise the page
\* inserts its own scan_results row with the user's token (a failed insert is only logged)
\* and shows the scan as completed
SaveScanResult(i) ==
    LET row == [req |-> i, by |-> "WebsiteScanner", scan_type |-> "website",
                target |-> reqs[i].url, status |-> "completed",
                result |-> reqs[i].analysis, threats_found |-> reqs[i].threats_found,
                created_by |-> reqs[i].auth]
        saved == MayInsert(reqs[i].auth, "scan_results", row)
    IN  /\ reqs[i].page = "awaiting" /\ reqs[i].pc = "done"
        /\ IF reqs[i].status # 200
           THEN /\ reqs' = [reqs EXCEPT ![i].page = "idle"]
                /\ UNCHANGED <<scan_results, statement>>
           ELSE /\ reqs' = [reqs EXCEPT ![i].page = "completed"]
                /\ scan_results' = IF saved THEN scan_results \cup {row} ELSE scan_results
                /\ statement' = Statement(reqs[i].auth, "INSERT", "scan_results", {},
                                          IF saved THEN 1 ELSE 0,
                                          IF saved THEN None
                                          ELSE "42501 row-level security policy")
        /\ UNCHANGED <<urlVars, blockVars, hookVars, auth_users, incidents,
                       monitoring_status, blocked_entities, threats, audit_logs, httpLog,
                       llmLog>>

NextPage ==
    \/ /\ Len(reqs) < MaxRequests
       /\ \E uid \in auth_users, url \in ScanUrls : startScan(uid, url)
    \/ ScanWebsite
    \/ \E i \in 1..Len(reqs) : SaveScanResult(i)

SpecPage == InitScan /\ [][NextPage]_vars

\* C27: a website scan that the Website Scanner page started and shows as completed has
\* exactly one scan_results row
C27_OneRowPerPageScan ==
    \A i \in 1..Len(reqs) :
        reqs[i].page = "completed" =>
            Cardinality({row \in scan_results : row.req = i}) = 1

(***************************************************************************)
(* The hook useLiveThreatData (src/Frontend/src/hooks/useLiveThreatData.ts)*)
(* as LiveMap mounts it.  hook holds its state:                            *)
(*   attacks     the ids of the rows in the attacks list, first to last    *)
(*   isPaused    the state set by setIsPaused                              *)
(*   autoRefresh the option                                                *)
(*   channel     the 'live-attacks-realtime' channel is subscribed         *)
(*   intervals   the number of timers set by setInterval and not cleared   *)
(*   captured    isPaused as seen by the fetchThreatStream given to the    *)
(*               timer                                                     *)
(*   dirty       the effects of the mount are still to run                 *)
(* calls holds the fetchAttacks calls, invocations the live-threat-stream  *)
(* invocations the hook started, inflight the INSERT events on their way.  *)
(***************************************************************************)
limit == 2

MaxFetches == 4

MaxInvocations == 3

\* useState initialisers
LiveMounted(autoRefresh) ==
    [mounted |-> TRUE, attacks |-> <<>>, isPaused |-> FALSE, autoRefresh |-> autoRefresh,
     channel |-> FALSE, intervals |-> 0, captured |-> FALSE, dirty |-> TRUE]

\* .from('live_attacks').select('*').order('detected_at', { ascending: false }).limit(limit):
\* the rows are numbered in the order of their detected_at
Selected(rows) ==
    LET n == Cardinality(rows)
    IN  [j \in 1..(IF n < limit THEN n ELSE limit) |-> n + 1 - j]

\* fetchAttacks is called: the SELECT is on its way
fetchAttacks(by, isPaused, cs) ==
    Append(cs, [fn |-> "fetchAttacks", by |-> by, isPaused |-> isPaused, pc |-> "select",
                data |-> <<>>, error |-> FALSE])

\* a fetchThreatStream without its first line
fetchThreatStream_unguarded(isPaused, by, now, invs) ==
    Append(invs, [fn |-> "live-threat-stream", by |-> by, isPaused |-> now])

\* fetchThreatStream is called: if (isPaused) return, with the isPaused of the render that
\* made the callback; otherwise the invocation starts (now: isPaused at this moment)
fetchThreatStream(isPaused, by, now, invs) ==
    IF isPaused THEN invs
    ELSE Append(invs, [fn |-> "live-threat-stream", by |-> by, isPaused |-> now])

\* [payload.new, ...prev].slice(0, limit)
Prepended(id, prev) ==
    LET all == <<id>> \o prev
    IN  SubSeq(all, 1, IF Len(all) < limit THEN Len(all) ELSE limit)

\* the timer effect: the cleanup of its last run clears the timer that run had set, the
\* body sets one unless !autoRefresh || isPaused
TimerEffect(h, ran, wasPaused) ==
    LET cleared == IF ran /\ h.autoRefresh /\ ~wasPaused THEN h.intervals - 1
                   ELSE h.intervals
    IN  IF ~h.autoRefresh \/ h.isPaused THEN [h EXCEPT !.intervals = cleared]
        ELSE [h EXCEPT !.intervals = cleared + 1, !.captured = h.isPaused]

\* both effects run after a render in which fetchThreatStream changed (ran: they have run
\* before, so their cleanups run first): removeChannel, fetchAttacks(), fetchThreatStream(),
\* subscribe; clearInterval, setInterval
LiveEffects(h, ran, wasPaused, by) ==
    /\ hook' = [TimerEffect(h, ran, wasPaused) EXCEPT !.channel = TRUE, !.dirty = FALSE]
    /\ calls' = fetchAttacks(by, h.isPaused, calls)
    /\ invocations' = fetchThreatStream(h.isPaused, by, h.isPaused, invocations)
    /\ UNCHANGED <<OutsideHook, localStorage, inflight, live_attacks, delivered>>

\* React runs the effects of the mount
LiveFlushEffects ==
    /\ hook.mounted /\ hook.dirty
    /\ LiveEffects(hook, FALSE, FALSE, "mount")

\* the Pause / Resume button: setIsPaused(!isPaused); the render and the effects that
\* follow a click run before the handler's task ends
setIsPaused ==
    /\ hook.mounted /\ ~hook.dirty
    /\ Len(calls) < MaxFetches /\ Len(invocations) < MaxInvocations
    /\ LiveEffects([hook EXCEPT !.isPaused = ~hook.isPaused], TRUE, hook.isPaused, "effect")

\* refresh(): Promise.all([fetchAttacks(), fetchThreatStream()])
refresh ==
    /\ hook.mounted /\ ~hook.dirty
    /\ Len(calls) < MaxFetches /\ Len(invocations) < MaxInvocations
    /\ calls' = fetchAttacks("refresh", hook.isPaused, calls)
    /\ invocations' = fetchThreatStream(hook.isPaused, "refresh", hook.isPaused, invocations)
    /\ UNCHANGED <<OutsideHook, hook, localStorage, inflight, live_attacks, delivered>>

\* a timer set by setInterval(fetchThreatStream, refreshInterval) fires
IntervalTick ==
    /\ hook.intervals > 0 /\ Len(invocations) < MaxInvocations
    /\ invocations' = fetchThreatStream(hook.captured, "timer", hook.isPaused, invocations)
    /\ UNCHANGED <<OutsideHook, hook, localStorage, inflight, live_attacks, delivered, calls>>

\* the database runs the SELECT of a fetchAttacks call, or fails it
SelectRuns ==
    /\ \E c \in 1..Len(calls), error \in BOOLEAN :
          /\ calls[c].pc = "select"
          /\ calls' = [calls EXCEPT ![c].pc = "answered", ![c].error = error,
                                    ![c].data = IF error THEN <<>>
                                                ELSE Selected(live_attacks)]
    /\ UNCHANGED <<OutsideHook, hook, localStorage, inflight, invocations, live_attacks,
                   delivered>>

\* the answer reaches fetchAttacks: if (!error && data) setAttacks(data); the call is over
\* and its data is dropped
SelectReturns ==
    /\ \E c \in 1..Len(calls) :
          /\ calls[c].pc = "answered"
          /\ calls' = [calls EXCEPT ![c].pc = "done", ![c].data = <<>>]
          /\ hook' = IF calls[c].error THEN hook ELSE [hook EXCEPT !.attacks = calls[c].data]
    /\ UNCHANGED <<OutsideHook, localStorage, inflight, invocations, live_attacks, delivered>>

\* a row is inserted into live_attacks; Realtime sends the INSERT event to the subscribed
\* channel
LiveAttackInserted ==
    /\ Cardinality(live_attacks) < MaxAttacks
    /\ live_attacks' = live_attacks \cup {Attack(Cardinality(live_attacks) + 1)}
    /\ inflight' = IF hook.channel
                   THEN inflight \cup {Attack(Cardinality(live_attacks) + 1)} ELSE inflight
    /\ UNCHANGED <<OutsideHook, hook, localStorage, invocations, delivered, calls>>

\* an INSERT event reaches the client: setAttacks(prev => [payload.new, ...prev].slice(0, limit))
LiveInsertDelivered ==
    /\ \E attack \in inflight :
          /\ inflight' = inflight \ {attack}
          /\ hook' = IF hook.channel
                     THEN [hook EXCEPT !.attacks = Prepended(attack.id, hook.attacks)]
                     ELSE hook
    /\ UNCHANGED <<OutsideHook, localStorage, invocations, live_attacks, delivered, calls>>

InitLive ==
    /\ \E autoRefresh \in BOOLEAN : hook = LiveMounted(autoRefresh)
    /\ localStorage = None /\ inflight = {} /\ invocations = <<>> /\ live_attacks = {}
    /\ delivered = {} /\ calls = <<>>
    /\ UrlIdle /\ ScanIdle /\ BlockIdle /\ RlsIdle

NextLive ==
    \/ LiveFlushEffects \/ setIsPaused \/ refresh \/ IntervalTick
    \/ SelectRuns \/ SelectReturns \/ LiveAttackInserted \/ LiveInsertDelivered

SpecLive == InitLive /\ [][NextLive]_vars

\* the event loop runs the pending effects and fires a timer that is set
SpecLiveFair == SpecLive /\ WF_vars(LiveFlushEffects) /\ WF_vars(IntervalTick)

\* C28: the attacks list never holds two entries with the same id and never more than
\* limit entries
C28_AttacksDistinctAndBounded ==
    /\ Len(hook.attacks) <= limit
    /\ \A j, k \in 1..Len(hook.attacks) : hook.attacks[j] = hook.attacks[k] => j = k

\* C29: no live-threat-stream invocation is started while isPaused is true and no timer is
\* set then; at most one timer is set at a time; and while isPaused is false with
\* autoRefresh on, a further invocation starts unless the hook is paused first
C29_NoInvocationWhilePaused ==
    /\ [](\A k \in 1..Len(invocations) : ~invocations[k].isPaused)
    /\ [](hook.intervals <= 1 /\ (hook.isPaused => hook.intervals = 0))
    /\ \A n \in 0..(MaxInvocations - 1) :
          (~hook.isPaused /\ hook.autoRefresh /\ Len(invocations) = n)
              ~> (hook.isPaused \/ Len(invocations) > n)

\* refresh() was called while the hook was paused, the hook has been resumed since and its
\* timer has fired
C29_Witness ==
    /\ \E c \in 1..Len(calls) : calls[c].by = "refresh" /\ calls[c].isPaused
    /\ ~hook.isPaused /\ hook.autoRefresh
    /\ \E k \in 1..Len(invocations) : invocations[k].by = "timer"
    /\ \E k \in 1..Len(invocations) : invocations[k].by = "effect"

(***************************************************************************)
(* The Incidents page (src/Frontend/src/pages/Incidents.tsx).  Its         *)
(* handlers send their statements with the session of the signed-in user, *)
(* so the policies of incidents and audit_logs apply.  A timestamp is the  *)
(* number of the statement that wrote it; 0 is NULL.                       *)
(***************************************************************************)
MaxIncidentStatements == 3

IncidentStatuses == {"open", "investigating", "resolved", "closed"}

\* an incident as the table's defaults leave it: status 'open', resolved_at NULL
SeededIncident ==
    [id |-> 1, status |-> "open", resolved_at |-> 0, updated_at |-> 0,
     assigned_to |-> None, created_by |-> "ann"]

\* the audit_logs insert that follows a statement without error
IncidentAudit(uid, action, error) ==
    IF error = None /\ MayInsert(uid, "audit_logs", [user_id |-> uid])
    THEN audit_logs \cup {[req |-> statement.n + 1, by |-> "Incidents", user_id |-> uid,
                           action |-> action]}
    ELSE audit_logs

\* what the page's statements leave alone
OutsideIncidents ==
    <<urlVars, scanVars, blockVars, hookVars, auth_users, monitoring_status,
      blocked_entities, scan_results, threats>>

\* createIncident: the form's object has the key target, which is no column of incidents,
\* so PostgREST refuses the insert and the handler shows the error
createIncident(uid, title) ==
    /\ title # <<>>
    /\ statement' = Statement(uid, "INSERT", "incidents", {}, 0,
                              "PGRST204 Could not find the 'target' column")
    /\ UNCHANGED <<OutsideIncidents, incidents, audit_logs>>

\* a status update that stamps resolved_at whatever the status
resolved_at_always(status, now) == now

\* status === 'resolved' || status === 'closed' ? new Date().toISOString() : null
resolved_at(status, now) == IF status = "resolved" \/ status = "closed" THEN now ELSE 0

\* updateIncidentStatus: one UPDATE sets status and resolved_at of the rows with this id that
\* the caller may update (the trigger sets updated_at); then the audit_logs insert
updateIncidentStatus(uid, id, status) ==
    LET now == statement.n + 1
        new(row) == [row EXCEPT !.status = status, !.resolved_at = resolved_at(status, now),
                                !.updated_at = now]
        updated == {row \in incidents :
                       row.id = id /\ MayUpdate(uid, "incidents", row, new(row))}
    IN  /\ incidents' = (incidents \ updated) \cup {new(row) : row \in updated}
        /\ statement' = Statement(uid, "UPDATE", "incidents", updated,
                                  Cardinality(updated), None)
        /\ audit_logs' = IncidentAudit(uid, "incident_status_changed", None)
        /\ UNCHANGED OutsideIncidents

\* assignIncident: UPDATE incidents SET assigned_to = assigneeId WHERE id = id
assignIncident(uid, id, assigneeId) ==
    LET now == statement.n + 1
        new(row) == [row EXCEPT !.assigned_to = assigneeId, !.updated_at = now]
        updated == {row \in incidents :
                       row.id = id /\ MayUpdate(uid, "incidents", row, new(row))}
    IN  /\ incidents' = (incidents \ updated) \cup {new(row) : row \in updated}
        /\ statement' = Statement(uid, "UPDATE", "incidents", updated,
                                  Cardinality(updated), None)
        /\ audit_logs' = IncidentAudit(uid, "incident_assigned", None)
        /\ UNCHANGED OutsideIncidents

InitIncidents ==
    /\ auth_users = Users /\ statement = NoStatement /\ incidents = {SeededIncident}
    /\ UrlIdle /\ ScanIdle /\ BlockIdle /\ HookIdle

NextIncidents ==
    \/ /\ statement.n < MaxIncidentStatements
       /\ \E uid \in auth_users, title \in {<<>>, <<"x">>} : createIncident(uid, title)
    \/ /\ statement.n < MaxIncidentStatements
       /\ \E uid \in auth_users, row \in incidents, status \in IncidentStatuses :
             updateIncidentStatus(uid, row.id, status)
    \/ /\ statement.n < MaxIncidentStatements
       /\ \E uid \in auth_users, row \in incidents, assigneeId \in auth_users :
             assignIncident(uid, row.id, assigneeId)

SpecIncidents == InitIncidents /\ [][NextIncidents]_vars

\* C30: resolved_at of an incident is non-null exactly when its status is 'resolved' or
\* 'closed'
C30_ResolvedAtFollowsStatus ==
    \A row \in incidents :
        row.resolved_at # 0 <=> row.status \in {"resolved", "closed"}

\* the last statement reopened a resolved incident: its resolved_at is null again
C30_Witness ==
    /\ statement.cmd = "UPDATE" /\ statement.table = "incidents"
    /\ \E old \in statement.rows, row \in incidents :
          /\ old.id = row.id
          /\ old.status = "resolved" /\ old.resolved_at # 0
          /\ row.status = "investigating" /\ row.resolved_at = 0

====
